---- MODULE Spec2Model ----
(***************************************************************************)
(* Battle simulator (src/js/game.js), fighter engine (src/unnamed/part_001),*)
(* animal engine (src/unnamed/part_002, class AnimalAI) and input manager   *)
(* (src/unnamed/part_000) as one state machine.                             *)
(*                                                                          *)
(* Units.  Time: centiseconds.  Lengths and positions: centimetres.         *)
(* attackPower, moveSpeed, chargeSpeed and the animal's health: tenths.     *)
(* recentDamage: thousandths.  Steering forces: 1/5000.  Threat scores:     *)
(* thousandths.  Fighter and commander health: whole points (the animal's   *)
(* damage is floored).                                                      *)
(*                                                                          *)
(* Geometry.  Positions are the z coordinate of the THREE.Vector3 (the      *)
(* units stand on one line through the arena centre); a normalised          *)
(* direction is the sign of the difference, and a facing is 0 or 180        *)
(* degrees about the y axis.  A fighter whose position (force) has become   *)
(* NaN carries nan (forceNan) = TRUE; every comparison with NaN is false.   *)
(***************************************************************************)
EXTENDS Integers, Sequences, FiniteSets, TLC

VARIABLES
  phase,                \* state.phase
  time,                 \* state.time
  score,                \* state.score
  commanderDamageDealt, \* state.commanderDamageDealt
  fighters,             \* state.fighters (the roster, in placement order)
  commander,            \* state.commander
  animal,               \* state.animal
  behaviorTimer,        \* AnimalAI.behaviorTimer
  currentBehavior,      \* AnimalAI.currentBehavior
  attackTarget,         \* FighterAI.weights.attackTarget
  currentFormation,     \* FighterAI.currentFormation
  ret,                  \* what the last handler returned / how the last frame ended
  calls,                \* the performAttack calls of the last frame, in call order
  frames,               \* battle frames taken so far
  pending               \* the delayed scene callbacks scheduled and not yet run

vars == <<phase, time, score, commanderDamageDealt, fighters, commander, animal,
          behaviorTimer, currentBehavior, attackTarget, currentFormation,
          ret, calls, frames, pending>>

----------------------------------------------------------------------------
(* Bounds of the model *)

\* config.maxFighters (100 in game.js:9), bounded for model checking
maxFighters == 2

\* battle frames explored in one run of the program
MaxFrames == 4

\* clock.getDelta() of an ordinary frame (0.25 s)
Deltas == {25}

\* clock.getDelta() of a frame that follows a stall of the page (20 s)
StallDeltas == {2000}

\* clock.getDelta() of a frame on a page that drops frames (1 s)
SlowDeltas == {100}

\* the ground points a click can place a fighter on
PlacePositions == {-4600}

\* config.animalType values explored
ConfigTypes == {"gorilla", "elephant"}

\* the key codes that can be held down while a frame runs
HeldCodes == {"KeyW", "KeyE"}

\* the frame counts at which presses of the formation key, and calls of
\* startBattle during a battle, are explored
ControlFrames == {0}

\* the facings the slow turn of the setup phase can leave the commander at
Facings == {0}

----------------------------------------------------------------------------
(* Program constants *)

arenaSize == 100
FighterHealth == 50
CommanderHealth == 200
CommanderAttackPower == 5
CommanderAttackCooldown == 50
CommanderAttackRange == 200
FighterAttackRange == 200
FighterAttackCooldown == 100
InitialAnimalCooldown == 200
NormalCooldown == 100
EnragedCooldown == 70
WinBaseScore == 1000

Sign(x) == IF x > 0 THEN 1 ELSE IF x < 0 THEN -1 ELSE 0
Abs(x) == IF x < 0 THEN -x ELSE x
Min(a, b) == IF a < b THEN a ELSE b
Max(a, b) == IF a > b THEN a ELSE b

\* Vector3.distanceTo
distanceTo(a, b) == Abs(a - b)

NoTarget == [kind |-> "none", idx |-> 0]
CommanderRef == [kind |-> "commander", idx |-> 0]
FighterRef(i) == [kind |-> "fighter", idx |-> i]

\* AnimalAI.animalTypes
animalTypes ==
  [ gorilla    |-> [health |-> 10000, attackPower |-> 250, attackRange |-> 200,
                    moveSpeed |-> 80, chargeSpeed |-> 120,
                    behaviors |-> <<"charge", "sweep", "pound">>,
                    aggression |-> 80, intelligence |-> 70],
    bear       |-> [health |-> 12000, attackPower |-> 200, attackRange |-> 250,
                    moveSpeed |-> 70, chargeSpeed |-> 110,
                    behaviors |-> <<"charge", "swipe", "bite">>,
                    aggression |-> 75, intelligence |-> 60],
    lion       |-> [health |-> 8000, attackPower |-> 180, attackRange |-> 200,
                    moveSpeed |-> 120, chargeSpeed |-> 180,
                    behaviors |-> <<"pounce", "bite", "claw">>,
                    aggression |-> 90, intelligence |-> 65],
    elephant   |-> [health |-> 20000, attackPower |-> 300, attackRange |-> 300,
                    moveSpeed |-> 50, chargeSpeed |-> 90,
                    behaviors |-> <<"trample", "tuskSwipe", "throw">>,
                    aggression |-> 50, intelligence |-> 80],
    rhinoceros |-> [health |-> 15000, attackPower |-> 250, attackRange |-> 200,
                    moveSpeed |-> 70, chargeSpeed |-> 150,
                    behaviors |-> <<"charge", "gore", "trample">>,
                    aggression |-> 70, intelligence |-> 50],
    tiger      |-> [health |-> 9000, attackPower |-> 220, attackRange |-> 250,
                    moveSpeed |-> 110, chargeSpeed |-> 160,
                    behaviors |-> <<"pounce", "ambush", "claw">>,
                    aggression |-> 85, intelligence |-> 70],
    hippo      |-> [health |-> 18000, attackPower |-> 280, attackRange |-> 250,
                    moveSpeed |-> 40, chargeSpeed |-> 80,
                    behaviors |-> <<"charge", "bite", "throw">>,
                    aggression |-> 90, intelligence |-> 40] ]

SpecialNames == {"sweep", "pound", "swipe", "bite", "pounce", "claw", "trample",
                 "tuskSwipe", "throw", "gore", "ambush"}

\* names every object literal inherits from Object.prototype: animalTypes[k]
\* is a function or an object (truthy) for each of them, with no size field
ObjectPrototypeKeys ==
  {"constructor", "toString", "valueOf", "hasOwnProperty", "isPrototypeOf",
   "propertyIsEnumerable", "toLocaleString", "__proto__"}

\* AnimalAI.createAnimal raises a TypeError: the test !this.animalTypes[type]
\* passes an inherited name, and animalData.size.x reads x of undefined
createAnimalThrows(type) ==
  type \notin DOMAIN animalTypes /\ type \in ObjectPrototypeKeys

\* AnimalAI.createAnimal where it returns: a type for which animalTypes[type]
\* is undefined falls back to gorilla; the animal
\* stands at z = -arenaSize/2 * 0.9; no size field is copied from the profile
createAnimal(type) ==
  LET t == IF type \in DOMAIN animalTypes THEN type ELSE "gorilla"
      d == animalTypes[t]
  IN [ type |-> t,
       position |-> -((arenaSize * 100 * 9) \div 20),
       health |-> d.health,
       maxHealth |-> d.health,
       attackPower |-> d.attackPower,
       attackRange |-> d.attackRange,
       moveSpeed |-> d.moveSpeed,
       chargeSpeed |-> d.chargeSpeed,
       state |-> "idle",
       behaviors |-> d.behaviors,
       target |-> NoTarget,
       lastAttackTime |-> 0,
       attackCooldown |-> InitialAnimalCooldown,
       aggression |-> d.aggression,
       intelligence |-> d.intelligence,
       currentBehavior |-> "null",
       specialCooldowns |-> [b \in SpecialNames |-> 0],
       recentDamage |-> 0,
       isEnraged |-> FALSE,
       ambushPrepared |-> FALSE,
       searchDirection |-> 0,
       hasSearchDirection |-> FALSE,
       nan |-> FALSE,
       roundoff |-> [attackPower |-> 0, moveSpeed |-> 0, chargeSpeed |-> 0] ]

\* BattleSimulator.createCommander (the object has no state field until
\* performAttack writes one: "none" stands for undefined)
createCommander ==
  [ position |-> 0, rotation |-> 0, health |-> CommanderHealth,
    maxHealth |-> CommanderHealth, lastAttackTime |-> 0, state |-> "none" ]

\* the fighter object of BattleSimulator.createFighter
newFighter(pos) ==
  [ position |-> pos, forceAccumulator |-> 0, health |-> FighterHealth,
    maxHealth |-> FighterHealth, state |-> "idle", lastAttackTime |-> 0,
    commanderInfluence |-> FALSE, stunned |-> FALSE, stunTime |-> 0,
    nan |-> FALSE, forceNan |-> FALSE ]

----------------------------------------------------------------------------
(* The world a frame works on: the program state plus the frame's log *)

World ==
  [ phase |-> phase, time |-> time, score |-> score,
    commanderDamageDealt |-> commanderDamageDealt, fighters |-> fighters,
    commander |-> commander, animal |-> animal, behaviorTimer |-> behaviorTimer,
    currentBehavior |-> currentBehavior, attackTarget |-> attackTarget,
    currentFormation |-> currentFormation,
    calls |-> <<>>, thrown |-> FALSE, pending |-> pending,
    velocity |-> 0, velNan |-> FALSE ]

\* setTimeout(callback, 100) / requestAnimationFrame(callback) for a scene
\* effect: one entry per kind of callback, the callbacks of a kind do the same
schedule(w, kind) == [w EXCEPT !.pending = @ \cup {kind}]

Roster(w) == 1..Len(w.fighters)
Live(w) == {i \in Roster(w) : w.fighters[i].state # "dead"}

----------------------------------------------------------------------------
(* Formation engine (FighterAI), projected on z.  Index i is 0-based. *)

\* 2*cos(2*pi*i/n) for the roster sizes the bounded model reaches
Cos2(i, n) ==
  CASE n = 1 -> 2
    [] n = 2 -> IF i = 0 THEN 2 ELSE -2
    [] n = 3 -> IF i = 0 THEN 2 ELSE -1
    [] n = 4 -> IF i = 0 THEN 2 ELSE IF i = 2 THEN -2 ELSE 0
    [] OTHER -> 0

\* 1000*cos(2*pi*k/17), k = 0..16
Cos17 == <<1000, 932, 739, 446, 92, -274, -603, -850, -983,
           -983, -850, -603, -274, 92, 446, 739, 932>>

\* the least r with r*r >= n: Math.ceil(Math.sqrt(n))
CeilSqrt(n) == CHOOSE r \in 0..n : r * r >= n /\ (r = 0 \/ (r - 1) * (r - 1) < n)

\* FighterAI.circleFormation: radius = min(n * 0.5, 15), angle = i/n * 2pi
circleFormation(i, n, center, dirZ) ==
  [nan |-> FALSE, z |-> center + (Cos2(i, n) * Min(n * 50, 1500)) \div 2]

\* FighterAI.lineFormation: the offset (i / (n - 1) - 0.5) * width runs along the
\* perpendicular (-dir.z, 0, dir.x), whose z component is 0; for n = 1 the
\* quotient is 0/0 and every coordinate of the slot is NaN
lineFormation(i, n, center, dirZ) ==
  [nan |-> (n - 1 = 0 /\ i = 0), z |-> center]

\* FighterAI.arrowFormation
arrowFormation(i, n, center, dirZ) ==
  IF i = 0 THEN [nan |-> FALSE, z |-> center + dirZ * 300]
  ELSE LET rowSize == CeilSqrt(n)
           row == i \div rowSize
           posInRow == i % rowSize
           totalInRow == Min(rowSize, n - row * rowSize)
       IN [nan |-> (totalInRow - 1 = 0 /\ posInRow = 0),
           z |-> center + dirZ * (-(row * 200))]

\* a scatter slot whose seed also takes the roster size
scatterFormationSeedCount(i, n, center, dirZ) ==
  LET seed == ((i + n) * 13371) % 17
      radius == Min(n * 70, 2000)
      distance == ((seed % 7) * radius) \div 7
  IN [nan |-> FALSE, z |-> center + (Cos17[seed + 1] * distance) \div 1000]

\* FighterAI.scatterFormation: seed = i * 13371 % 17
scatterFormation(i, n, center, dirZ) ==
  LET seed == (i * 13371) % 17
      radius == Min(n * 70, 2000)
      distance == ((seed % 7) * radius) \div 7
  IN [nan |-> FALSE, z |-> center + (Cos17[seed + 1] * distance) \div 1000]

\* facing of the commander as the z component of (0,0,-1) turned by rotation
DirZ(rotation) == IF rotation = 0 THEN -1 ELSE 1

\* FighterAI.updateFormationCenter: 5 units ahead of the commander
formationCenter(w) == w.commander.position + 500 * DirZ(w.commander.rotation)

\* FighterAI.getFormationPosition
getFormationPosition(w, i) ==
  LET n == Len(w.fighters)
      c == formationCenter(w)
      d == DirZ(w.commander.rotation)
  IN CASE w.currentFormation = "circle" -> circleFormation(i - 1, n, c, d)
       [] w.currentFormation = "line" -> lineFormation(i - 1, n, c, d)
       [] w.currentFormation = "arrow" -> arrowFormation(i - 1, n, c, d)
       [] OTHER -> scatterFormation(i - 1, n, c, d)

----------------------------------------------------------------------------
(* Fighter engine (FighterAI.update), one fighter at a time, in place *)

\* forceAccumulator.add(v)
AddForce(f, v) == [f EXCEPT !.forceAccumulator = @ + v]

\* FighterAI.applyFormationForce: weight 0.3 * distance * 0.2 toward the slot
applyFormationForce(w, i) ==
  LET f == w.fighters[i]
      slot == getFormationPosition(w, i)
  IN IF f.nan \/ slot.nan
       THEN [w EXCEPT !.fighters[i].forceNan = TRUE]
       ELSE [w EXCEPT !.fighters[i] = AddForce(f, 3 * (slot.z - f.position))]

\* FighterAI.applyTargetingForce
applyTargetingForce(w, i) ==
  LET f == w.fighters[i]
      d == distanceTo(w.animal.position, f.position)
  IN IF ~f.nan /\ ~w.animal.nan /\ d <= FighterAttackRange
       THEN [w EXCEPT !.fighters[i].state = "attacking"]
       ELSE [w EXCEPT !.fighters[i] =
               [ (IF f.nan \/ w.animal.nan THEN [f EXCEPT !.forceNan = TRUE]
                  ELSE AddForce(f, w.attackTarget * Sign(w.animal.position - f.position)))
                 EXCEPT !.state = "moving" ]]

\* a separation sum that does not skip the dead
AvoidSumAll(w, i, js) ==
  LET f == w.fighters[i]
      term(j) == LET o == w.fighters[j]
                     d == distanceTo(f.position, o.position)
                 IN IF j = i \/ f.nan \/ o.nan \/ ~(d < 150)
                      THEN 0
                      ELSE Sign(f.position - o.position) * (150 - d) * 20
      RECURSIVE sum(_)
      sum(k) == IF k = 0 THEN 0 ELSE sum(k - 1) + term(k)
  IN sum(js)

\* FighterAI.applyAvoidanceForce: other live fighters nearer than 1.5
AvoidSum(w, i, js) ==
  LET f == w.fighters[i]
      term(j) == LET o == w.fighters[j]
                     d == distanceTo(f.position, o.position)
                 IN IF j = i \/ o.state = "dead" \/ f.nan \/ o.nan \/ ~(d < 150)
                      THEN 0
                      ELSE Sign(f.position - o.position) * (150 - d) * 20
      RECURSIVE sum(_)
      sum(k) == IF k = 0 THEN 0 ELSE sum(k - 1) + term(k)
  IN sum(js)

applyAvoidanceForce(w, i) ==
  [w EXCEPT !.fighters[i] = AddForce(@, AvoidSum(w, i, Len(w.fighters)))]

\* a commander influence that leaves the commanderInfluence flag as it is
applyCommanderInfluenceKeep(w, i, mouse) ==
  LET f == w.fighters[i]
      d == distanceTo(w.commander.position, f.position)
  IN IF f.commanderInfluence \/ (~f.nan /\ d < 1500)
       THEN [w EXCEPT
               !.attackTarget = IF mouse THEN 6000 ELSE 4000,
               !.fighters[i] =
                  IF ~f.nan /\ d > 1050
                    THEN AddForce(f, 2500 * Sign(w.commander.position - f.position))
                    ELSE f]
       ELSE w

\* FighterAI.applyCommanderInfluence (mouse is InputManager.mouse.isDown)
applyCommanderInfluence(w, i, mouse) ==
  LET f == w.fighters[i]
      d == distanceTo(w.commander.position, f.position)
  IN IF f.commanderInfluence \/ (~f.nan /\ d < 1500)
       THEN [w EXCEPT
               !.attackTarget = IF mouse THEN 6000 ELSE 4000,
               !.fighters[i] =
                  [ (IF ~f.nan /\ d > 1050
                       THEN AddForce(f, 2500 * Sign(w.commander.position - f.position))
                       ELSE f)
                    EXCEPT !.commanderInfluence = FALSE ]]
       ELSE w

\* a flee force added to the forces already accumulated
applyFleeingForceAdded(w, i) ==
  LET f == w.fighters[i]
  IN [w EXCEPT !.fighters[i] =
        [AddForce(f, 7000 * Sign(f.position - w.animal.position))
           EXCEPT !.forceNan = (@ \/ f.nan \/ w.animal.nan), !.state = "fleeing"]]

\* FighterAI.applyFleeingForce: the accumulator is replaced by the flee force
applyFleeingForce(w, i) ==
  LET f == w.fighters[i]
  IN [w EXCEPT !.fighters[i] =
        [f EXCEPT !.forceAccumulator = 7000 * Sign(f.position - w.animal.position),
                  !.forceNan = (f.nan \/ w.animal.nan),
                  !.state = "fleeing"]]

\* the injury test of FighterAI.update: health < maxHealth * 0.2
Injured(f) == f.health * 5 < f.maxHealth

\* velocity = normalize(force) * 5 * delta; position += velocity
integrate(w, i, delta) ==
  LET f == w.fighters[i]
  IN IF f.forceNan
       THEN [w EXCEPT !.fighters[i].nan = TRUE]
       ELSE [w EXCEPT !.fighters[i].position = @ + Sign(f.forceAccumulator) * 5 * delta]

\* damage of one fighter hit, in tenths: 1, or 1.5 under commander influence
fighterDamage(f) == IF f.commanderInfluence THEN 15 ELSE 10

\* a fighter attack that does not look at the fighter's state
handleFighterAttacksAnyState(w, i) ==
  LET f == w.fighters[i]
  IN IF ~f.nan /\ ~w.animal.nan
        /\ distanceTo(f.position, w.animal.position) <= FighterAttackRange
        /\ w.time - f.lastAttackTime > FighterAttackCooldown
       THEN schedule([w EXCEPT !.animal.health = @ - fighterDamage(f),
                               !.fighters[i].lastAttackTime = w.time],
                     "fighterFlash")
       ELSE w

\* FighterAI.handleFighterAttacks
handleFighterAttacks(w, i) ==
  LET f == w.fighters[i]
  IN IF f.state = "attacking" /\ ~f.nan /\ ~w.animal.nan
        /\ distanceTo(f.position, w.animal.position) <= FighterAttackRange
        /\ w.time - f.lastAttackTime > FighterAttackCooldown
       THEN schedule([w EXCEPT !.animal.health = @ - fighterDamage(f),
                               !.fighters[i].lastAttackTime = w.time],
                     "fighterFlash")
       ELSE w

\* the body of the loop of FighterAI.update for fighter i
fighterStep(w, i, delta, mouse) ==
  IF w.fighters[i].state = "dead" THEN w
  ELSE LET w0 == [w EXCEPT !.fighters[i].forceAccumulator = 0,
                           !.fighters[i].forceNan = FALSE]
           w1 == applyFormationForce(w0, i)
           w2 == applyTargetingForce(w1, i)
           w3 == applyAvoidanceForce(w2, i)
           w4 == applyCommanderInfluence(w3, i, mouse)
           w5 == IF Injured(w4.fighters[i]) THEN applyFleeingForce(w4, i) ELSE w4
           w6 == integrate(w5, i, delta)
       IN handleFighterAttacks(w6, i)

\* FighterAI.update
RECURSIVE fighterLoop(_, _, _, _)
fighterLoop(w, k, delta, mouse) ==
  IF k = 0 THEN w ELSE fighterStep(fighterLoop(w, k - 1, delta, mouse), k, delta, mouse)

FighterAIupdate(w, delta, mouse) ==
  IF w.phase # "battle" THEN w ELSE fighterLoop(w, Len(w.fighters), delta, mouse)

----------------------------------------------------------------------------
(* Commander (BattleSimulator.updateCommander and what it calls) *)

\* AnimalAI.recordDamageToAnimal (amount in whole points)
recordDamageToAnimal(w, amount) ==
  [w EXCEPT !.animal.recentDamage = @ + amount * 1000]

\* BattleSimulator.rallyNearbyFighters
rallyNearbyFighters(w) ==
  schedule([w EXCEPT !.fighters =
     [i \in Roster(w) |->
        LET f == w.fighters[i]
        IN IF f.state # "dead" /\ ~f.nan
              /\ distanceTo(w.commander.position, f.position) <= 1500
             THEN [f EXCEPT !.commanderInfluence = TRUE] ELSE f]], "rallyRing")

\* a commander attack that does not wait for its cooldown
commanderAttackNoCooldown(w) ==
  LET c == w.commander
  IN IF ~w.animal.nan
        /\ distanceTo(c.position, w.animal.position) <= CommanderAttackRange
       THEN [recordDamageToAnimal(w, CommanderAttackPower) EXCEPT
               !.animal.health = @ - CommanderAttackPower * 10,
               !.commanderDamageDealt = @ + CommanderAttackPower,
               !.commander.lastAttackTime = w.time]
       ELSE w

\* BattleSimulator.commanderAttack
commanderAttack(w) ==
  LET c == w.commander
  IN IF w.time - c.lastAttackTime < CommanderAttackCooldown THEN w
     ELSE IF ~w.animal.nan
             /\ distanceTo(c.position, w.animal.position) <= CommanderAttackRange
       THEN schedule([recordDamageToAnimal(w, CommanderAttackPower) EXCEPT
                        !.animal.health = @ - CommanderAttackPower * 10,
                        !.commanderDamageDealt = @ + CommanderAttackPower,
                        !.commander.lastAttackTime = w.time], "attackLine")
       ELSE w

\* an arena without bounds
keepInArenaOpen(pos) == pos

\* BattleSimulator.keepInArena
keepInArena(pos) ==
  LET maxZ == (arenaSize * 100) \div 2 - 200
  IN Max(-maxZ, Min(maxZ, pos))

\* BattleSimulator.updateCommander; the camera is in overview mode, so
\* forward is (0,0,-1); ks is input.keys, mouse is input.mouse.isDown
updateCommander(w, delta, ks, mouse) ==
  LET moveSpeed == 15 * delta
      vel == IF "KeyW" \in ks THEN -moveSpeed
             ELSE IF "KeyS" \in ks THEN moveSpeed ELSE 0
      \* lerpAngle(rotation, atan2(0, vel), 10 * delta) for 10 * delta >= 1
      rot == IF vel > 0 THEN 0 ELSE IF vel < 0 THEN 180 ELSE w.commander.rotation
      w1 == [w EXCEPT !.commander.position = @ + vel, !.commander.rotation = rot]
      w2 == IF "KeyE" \in ks THEN rallyNearbyFighters(w1) ELSE w1
      w3 == IF mouse THEN commanderAttack(w2) ELSE w2
  IN [w3 EXCEPT !.commander.position = keepInArena(@)]

----------------------------------------------------------------------------
(* Animal engine (AnimalAI) *)

HasTarget(w) == w.animal.target.kind # "none"

\* the unit animal.target refers to
TargetUnit(w) ==
  IF w.animal.target.kind = "fighter" THEN w.fighters[w.animal.target.idx]
  ELSE w.commander

TargetNan(w) ==
  w.animal.nan \/ (w.animal.target.kind = "fighter" /\ TargetUnit(w).nan)

\* animal.position.distanceTo(animal.target.position), when it is a number
TargetDistance(w) == distanceTo(w.animal.position, TargetUnit(w).position)

\* The stats are IEEE-754 doubles.  <<t, u>> is the double u units in the
\* last place above the double nearest to t tenths (animal.roundoff keeps u).
\* x * 1.3, x / 1.3, x * 1.2 and x / 1.2 are exact to the nearest double on
\* the values the catalogue reaches, except where listed.
fmul13(x) ==
  CASE x = <<180, 0>> -> <<234, 1>>
    [] x = <<280, -1>> -> <<364, 0>>
    [] OTHER -> <<(x[1] * 13) \div 10, 0>>

fdiv13(x) ==
  CASE x = <<234, 1>> -> <<180, 0>>
    [] x = <<364, 0>> -> <<280, -1>>
    [] OTHER -> <<(x[1] * 10) \div 13, 0>>

fmul12(x) ==
  CASE x = <<90, 0>> -> <<108, -1>>
    [] x = <<120, 0>> -> <<144, -1>>
    [] x = <<180, 0>> -> <<216, -1>>
    [] x = <<70, 1>> -> <<84, 0>>
    [] OTHER -> <<(x[1] * 12) \div 10, 0>>

fdiv12(x) ==
  CASE x = <<84, 0>> -> <<70, 1>>
    [] x = <<108, -1>> -> <<90, 0>>
    [] x = <<144, -1>> -> <<120, 0>>
    [] x = <<216, -1>> -> <<180, 0>>
    [] OTHER -> <<(x[1] * 10) \div 12, 0>>

\* the stats and their roundoff after the three operations: p attackPower,
\* m moveSpeed, c chargeSpeed
withStats(a, p, m, c) ==
  [a EXCEPT !.attackPower = p[1], !.moveSpeed = m[1], !.chargeSpeed = c[1],
            !.roundoff = [attackPower |-> p[2], moveSpeed |-> m[2],
                          chargeSpeed |-> c[2]]]

\* the stat changes of entering the enraged state
enrage(a) ==
  [withStats(a, fmul13(<<a.attackPower, a.roundoff.attackPower>>),
                fmul12(<<a.moveSpeed, a.roundoff.moveSpeed>>),
                fmul12(<<a.chargeSpeed, a.roundoff.chargeSpeed>>))
     EXCEPT !.isEnraged = TRUE]

\* the stat changes of leaving the enraged state
calm(a) ==
  [withStats(a, fdiv13(<<a.attackPower, a.roundoff.attackPower>>),
                fdiv12(<<a.moveSpeed, a.roundoff.moveSpeed>>),
                fdiv12(<<a.chargeSpeed, a.roundoff.chargeSpeed>>))
     EXCEPT !.isEnraged = FALSE]

\* a rage update that never leaves the enraged state
updateRageStateNoExit(a, delta) ==
  LET k == 200 - delta
      r == (a.recentDamage \div 200) * k + ((a.recentDamage % 200) * k) \div 200
      a1 == [a EXCEPT !.recentDamage = r]
      enrageThreshold == a.maxHealth * 10
  IN IF ~a.isEnraged /\ r > enrageThreshold THEN enrage(a1) ELSE a1

\* a rage update that leaves the enraged state at the threshold it enters it
updateRageStateNoHysteresis(a, delta) ==
  LET k == 200 - delta
      r == (a.recentDamage \div 200) * k + ((a.recentDamage % 200) * k) \div 200
      a1 == [a EXCEPT !.recentDamage = r]
      enrageThreshold == a.maxHealth * 10
  IN IF ~a.isEnraged /\ r > enrageThreshold THEN enrage(a1)
     ELSE IF a.isEnraged /\ r < enrageThreshold THEN calm(a1)
     ELSE a1

\* AnimalAI.updateRageState: recentDamage *= 1 - delta * 0.5, then the
\* thresholds at 10% and 5% of maxHealth
updateRageState(a, delta) ==
  LET k == 200 - delta
      \* floor(recentDamage * k / 200), without leaving TLC's integers
      r == (a.recentDamage \div 200) * k + ((a.recentDamage % 200) * k) \div 200
      a1 == [a EXCEPT !.recentDamage = r]
      enrageThreshold == a.maxHealth * 10
  IN IF ~a.isEnraged /\ r > enrageThreshold THEN enrage(a1)
     ELSE IF a.isEnraged /\ 2 * r < enrageThreshold THEN calm(a1)
     ELSE a1

\* AnimalAI.countNearbyFighters
countNearbyFighters(w, radius) ==
  Cardinality({i \in Live(w) : ~w.animal.nan /\ ~w.fighters[i].nan
                 /\ distanceTo(w.animal.position, w.fighters[i].position) <= radius})
  + (IF ~w.animal.nan /\ distanceTo(w.animal.position, w.commander.position) <= radius
       THEN 1 ELSE 0)

\* the weight of a special behaviour without the cooldown test
behaviorWeightNoCooldown(w, b) ==
  LET a == w.animal
      close == ~TargetNan(w) /\ 10 * TargetDistance(w) < a.attackRange * 15
  IN 30
     + (IF 10 * a.health < a.maxHealth * 3
           /\ b \in {"pound", "throw", "gore", "trample"} THEN 30 ELSE 0)
     + (IF a.isEnraged
           /\ b \in {"swipe", "bite", "claw", "tuskSwipe", "gore"} THEN 40 ELSE 0)
     + (IF HasTarget(w) /\ close
           /\ b \in {"swipe", "bite", "pound", "claw"} THEN 30 ELSE 0)
     + (IF HasTarget(w) /\ ~close
           /\ b \in {"charge", "throw", "pounce"} THEN 30 ELSE 0)
     + (IF HasTarget(w) /\ countNearbyFighters(w, a.attackRange * 2) >= 3
           /\ b \in {"sweep", "trample", "tuskSwipe"} THEN 40 ELSE 0)

\* the weight (in hundredths) selectNewBehavior gives special behaviour b
behaviorWeight(w, b) ==
  LET a == w.animal
      close == ~TargetNan(w) /\ 10 * TargetDistance(w) < a.attackRange * 15
  IN IF a.specialCooldowns[b] > 0 THEN 0
     ELSE 30
          + (IF 10 * a.health < a.maxHealth * 3
                /\ b \in {"pound", "throw", "gore", "trample"} THEN 30 ELSE 0)
          + (IF a.isEnraged
                /\ b \in {"swipe", "bite", "claw", "tuskSwipe", "gore"} THEN 40 ELSE 0)
          + (IF HasTarget(w) /\ close
                /\ b \in {"swipe", "bite", "pound", "claw"} THEN 30 ELSE 0)
          + (IF HasTarget(w) /\ ~close
                /\ b \in {"charge", "throw", "pounce"} THEN 30 ELSE 0)
          + (IF HasTarget(w) /\ countNearbyFighters(w, a.attackRange * 2) >= 3
                /\ b \in {"sweep", "trample", "tuskSwipe"} THEN 40 ELSE 0)

\* the options of selectNewBehavior without the no-target case
behaviorOptionsTargetOnly(w) ==
  {"charge"} \cup
  {b \in {w.animal.behaviors[k] : k \in DOMAIN w.animal.behaviors} :
      b # "charge" /\ behaviorWeight(w, b) > 0}

\* the names selectNewBehavior can draw: every option has a positive share
\* of the unit interval, so each can be hit by Math.random()
behaviorOptions(w) ==
  IF ~HasTarget(w) THEN {"search"}
  ELSE {"charge"} \cup
       {b \in {w.animal.behaviors[k] : k \in DOMAIN w.animal.behaviors} :
           b # "charge" /\ behaviorWeight(w, b) > 0}

\* the least values of behaviorDuration: 3 + random * 2, 2 + random * 3,
\* 1.5 + random
durationChoices(b) ==
  CASE b = "charge" -> {300}
    [] b = "search" -> {200}
    [] OTHER -> {150}

\* the least value of a special's cooldown: 5 + random * 5
cooldownChoices == {500}

\* AnimalAI.selectNewBehavior with the name, duration and cooldown drawn
chooseBehavior(w, b, dur, cd) ==
  LET special == b \notin {"charge", "search"}
      d == IF w.animal.isEnraged THEN (dur * 13) \div 10 ELSE dur
  IN [w EXCEPT !.currentBehavior = b,
               !.behaviorTimer = d,
               !.animal.currentBehavior = b,
               !.animal.specialCooldowns =
                  IF special THEN [@ EXCEPT ![b] = cd] ELSE @]

\* the outcomes of selectNewBehavior in which the draw settles on name b
drawn(w, b) ==
  IF b \in {"charge", "search"}
    THEN {chooseBehavior(w, b, dur, 0) : dur \in durationChoices(b)}
    ELSE {chooseBehavior(w, b, dur, cd) :
            dur \in durationChoices(b), cd \in cooldownChoices}

positiveWeight(x) == x > 0

\* the weights (in thousandths) of the options selectNewBehavior pushes with
\* a target, in the order it pushes them: charge, then the type's specials
\* whose weight is positive
optionWeights(w) ==
  LET bs == w.animal.behaviors
      ws == [k \in DOMAIN bs |->
               IF bs[k] = "charge" THEN 0 ELSE 10 * behaviorWeight(w, bs[k])]
  IN <<500 + 5 * w.animal.aggression>> \o SelectSeq(ws, positiveWeight)

\* the option lists for which cumulativeWeight, the sum in IEEE doubles of
\* weight / totalWeight in pushing order, ends at 1 - 2^-52: a lion near its
\* target; an elephant below 30% health, far from its target, three units
\* about; a rhinoceros below 30% health, three units about (none enraged,
\* no cooldown running). Every other list of the seven types ends at 1.
RoundedShort ==
  { <<950, 300, 600, 600>>, <<750, 1000, 700, 900>>, <<850, 600, 1000>> }

\* randomValue <= cumulativeWeight fails for every option: Math.random()
\* may return 1 - 2^-53, above the rounded sum
nothingSelected(w) == HasTarget(w) /\ optionWeights(w) \in RoundedShort

\* AnimalAI.selectNewBehavior: every outcome of its random draws; when the
\* loop selects nothing this.currentBehavior keeps its value and the switch
\* runs on it
selectNewBehavior(w) ==
  UNION {drawn(w, b) : b \in behaviorOptions(w)}
  \cup (IF nothingSelected(w) THEN drawn(w, w.currentBehavior) ELSE {})

\* what the random terms of findNewTarget can add to a fighter's threat:
\* random * 0.2 (its ends), and 0.5 more for a fighter below 30 health when
\* random < intelligence
threatJitter(f) ==
  IF f.health < 30 THEN {0, 199, 500, 699} ELSE {0, 199}

\* the threat of fighter i without its random terms (thousandths)
fighterThreat(w, i) ==
  LET f == w.fighters[i]
      d == distanceTo(w.animal.position, f.position)
  IN (5000 - Min(5000, d)) \div 5 + f.health * 10
     + (IF f.state = "attacking" THEN 300 ELSE 0)

\* the threat of the commander
commanderThreat(w) ==
  LET c == w.commander
      d == distanceTo(w.animal.position, c.position)
  IN (5000 - Min(5000, d)) \div 5 + c.health * 10 + 400 + w.animal.intelligence * 3

\* the scan of findNewTarget over the fighters 1..k with the jitter j:
\* a strictly higher threat replaces the best so far; a NaN threat never does
RECURSIVE scanFighters(_, _, _)
scanFighters(w, j, k) ==
  IF k = 0 THEN [threat |-> -1000, target |-> NoTarget]
  ELSE LET best == scanFighters(w, j, k - 1)
           f == w.fighters[k]
       IN IF f.state = "dead" \/ f.nan \/ w.animal.nan THEN best
          ELSE IF fighterThreat(w, k) + j[k] > best.threat
                 THEN [threat |-> fighterThreat(w, k) + j[k], target |-> FighterRef(k)]
                 ELSE best

\* AnimalAI.findNewTarget with the jitter j drawn
pickTarget(w, j) ==
  LET best == scanFighters(w, j, Len(w.fighters))
      t == IF ~w.animal.nan /\ commanderThreat(w) > best.threat
             THEN CommanderRef ELSE best.target
  IN [w EXCEPT !.animal.target = t,
               !.animal.state = IF t.kind = "none" THEN "searching" ELSE @]

\* AnimalAI.findNewTarget: every outcome of its random draws
findNewTarget(w) ==
  { pickTarget(w, j) :
      j \in {g \in [Roster(w) -> {0, 199, 500, 699}] :
               \A i \in Roster(w) : g[i] \in threatJitter(w.fighters[i])} }

\* performAttack without its cooldown test
neverOnCooldown(w) == FALSE

\* the cooldown test of AnimalAI.performAttack
onCooldown(w) == w.time - w.animal.lastAttackTime < w.animal.attackCooldown

\* the ends of floor(baseDamage * (0.8 + random * 0.4)), random in [0, 1);
\* base is baseDamage in hundredths
damageChoices(base) == {(base * 8) \div 1000, (base * 12 - 1) \div 1000}

\* a hit that clamps the health and leaves the state
hitWithoutDeath(u, damage) ==
  IF u.health - damage <= 0 THEN [u EXCEPT !.health = 0]
  ELSE [u EXCEPT !.health = @ - damage]

\* target.health -= damage, clamped, with the transition to dead
hit(u, damage) ==
  IF u.health - damage <= 0
    THEN [u EXCEPT !.health = 0, !.state = "dead"]
    ELSE [u EXCEPT !.health = @ - damage]

\* the cooldown an accepted attack sets for the next one
nextCooldown(a) == IF a.isEnraged THEN EnragedCooldown ELSE NormalCooldown

\* the health of the unit a target reference names
healthOf(w, t) ==
  IF t.kind = "fighter" THEN w.fighters[t.idx].health ELSE w.commander.health

\* the log entry of a performAttack(animal, targets, base) call that took
\* the world w to x and returned accepted; loss is the health each unit of
\* the battle lost
CallRecord(w, x, targets, base, accepted) ==
  [ accepted |-> accepted, targets |-> targets, base |-> base,
    loss |-> [t \in {FighterRef(i) : i \in Roster(w)} \cup {CommanderRef} |->
                healthOf(w, t) - healthOf(x, t)],
    live |-> {t \in targets :
                IF t.kind = "fighter" THEN w.fighters[t.idx].state # "dead"
                ELSE w.commander.state # "dead"},
    at |-> w.time, last |-> w.animal.lastAttackTime,
    cooldown |-> w.animal.attackCooldown,
    lastAfter |-> x.animal.lastAttackTime ]

logCall(w, x, targets, base, accepted) ==
  [x EXCEPT !.calls = Append(@, CallRecord(w, x, targets, base, accepted))]

\* an accepted attack that resets the attack timer once per target: with two
\* targets or more it ends one frame ahead of the game time
strikePerTarget(w, targets, dmg) ==
  [w EXCEPT
     !.fighters = [i \in Roster(w) |->
                     IF FighterRef(i) \in targets /\ w.fighters[i].state # "dead"
                       THEN [w.fighters[i] EXCEPT !.health = Max(0, @ - dmg[FighterRef(i)])]
                       ELSE w.fighters[i]],
     !.animal.lastAttackTime =
        IF Cardinality(targets) > 1 THEN w.time + 25 ELSE w.time]

\* AnimalAI.performAttack past the cooldown test, with the damage dmg drawn
\* for each target: dead targets are skipped, lastAttackTime is set once
strike(w, targets, dmg) ==
  [w EXCEPT
     !.fighters = [i \in Roster(w) |->
                     IF FighterRef(i) \in targets /\ w.fighters[i].state # "dead"
                       THEN hit(w.fighters[i], dmg[FighterRef(i)]) ELSE w.fighters[i]],
     !.commander = IF CommanderRef \in targets /\ w.commander.state # "dead"
                     THEN hit(w.commander, dmg[CommanderRef]) ELSE @,
     !.pending = IF \/ CommanderRef \in targets /\ w.commander.state # "dead"
                    \/ \E i \in Roster(w) : FighterRef(i) \in targets
                                             /\ w.fighters[i].state # "dead"
                   THEN @ \cup {"animalFlash"} ELSE @,
     !.animal.lastAttackTime = w.time,
     !.animal.attackCooldown = nextCooldown(w.animal)]

\* AnimalAI.performAttack: every outcome of its random draws
performAttack(w, targets, base) ==
  IF onCooldown(w)
    THEN {logCall(w, w, targets, base, FALSE)}
    ELSE {logCall(w, strike(w, targets, dmg), targets, base, TRUE) :
            dmg \in [targets -> damageChoices(base)]}

\* animal.velocity = direction to the target * speed * mult * delta
\* (speed in tenths, mult in tenths)
setVelocity(w, speed, mult, delta) ==
  [w EXCEPT !.velocity = Sign(TargetUnit(w).position - w.animal.position)
                           * ((speed * mult * delta) \div 100),
            !.velNan = TargetNan(w)]

\* target within reach: distanceToTarget <= animal.attackRange
TargetInRange(w) == ~TargetNan(w) /\ TargetDistance(w) <= w.animal.attackRange

\* AnimalAI.executeChargeBehavior
executeChargeBehavior(w, delta) ==
  IF ~HasTarget(w) THEN {w}
  ELSE LET far == ~TargetNan(w) /\ TargetDistance(w) > w.animal.attackRange * 3
           w1 == setVelocity(w, IF far THEN w.animal.chargeSpeed ELSE w.animal.moveSpeed,
                             10, delta)
       IN IF TargetInRange(w)
            THEN performAttack(w1, {w.animal.target}, w.animal.attackPower * 10)
            ELSE {w1}

\* AnimalAI.executeSearchBehavior: searchDirection is drawn when missing and
\* redrawn with probability 0.02; multiplyScalar scales it in place
executeSearchBehavior(w, delta) ==
  LET a == w.animal
      dirs == (IF a.hasSearchDirection THEN {a.searchDirection} ELSE {}) \cup {-100, 100}
      moved(d) == LET sd == (d * a.moveSpeed * 5 * delta) \div 10000
                  IN [w EXCEPT !.animal.searchDirection = sd,
                               !.animal.hasSearchDirection = TRUE,
                               !.velocity = sd, !.velNan = FALSE]
  IN UNION {findNewTarget(moved(d)) : d \in dirs}

\* AnimalAI.getFightersInCone: Math.clamp is not a function, so the call
\* raises a TypeError at the first unit that passes the distance test
\* (distance > radius is false for NaN); radius in millimetres
getFightersInConeThrows(w, radius) ==
  \/ \E i \in Live(w) :
        \/ w.fighters[i].nan \/ w.animal.nan
        \/ ~(10 * distanceTo(w.fighters[i].position, w.animal.position) > radius)
  \/ (~w.animal.nan /\ 10 * distanceTo(w.commander.position, w.animal.position) <= radius)

\* AnimalAI.executeSwipeBehavior (sweep, swipe, tuskSwipe)
executeSwipeBehavior(w, delta) ==
  IF ~HasTarget(w) THEN {w}
  ELSE LET w1 == setVelocity(w, w.animal.moveSpeed, 5, delta)
       IN IF getFightersInConeThrows(w1, w.animal.attackRange * 15)
            THEN {[w1 EXCEPT !.thrown = TRUE]}
            ELSE {w1}

\* AnimalAI.getFightersInRadius
getFightersInRadius(w, radius) ==
  {FighterRef(i) : i \in {k \in Live(w) : ~w.animal.nan /\ ~w.fighters[k].nan
       /\ distanceTo(w.animal.position, w.fighters[k].position) <= radius}}
  \cup (IF ~w.animal.nan /\ distanceTo(w.animal.position, w.commander.position) <= radius
          THEN {CommanderRef} ELSE {})

\* the stun loop of executePoundBehavior with the draws st: "no", or the end
\* of 1 + random the stunTime is set to (the commander's stunned field is
\* written too and read nowhere; it is not kept)
applyStun(w, targets, st) ==
  [w EXCEPT !.fighters =
     [i \in Roster(w) |->
        IF FighterRef(i) \in targets /\ st[FighterRef(i)] # 0
          THEN [w.fighters[i] EXCEPT !.stunned = TRUE, !.stunTime = st[FighterRef(i)]]
          ELSE w.fighters[i]]]

\* not stunned (0), or stunned with the least stunTime, 1 + random
stunChoices == {0, 100}

stunOutcomes(w, targets) ==
  {applyStun(w, targets, st) : st \in [targets -> stunChoices]}

\* AnimalAI.executePoundBehavior (pound, pounce)
executePoundBehavior(w, delta) ==
  IF ~HasTarget(w) THEN {w}
  ELSE LET w1 == setVelocity(w, w.animal.moveSpeed, 3, delta)
           attackTargets == getFightersInRadius(w1, w.animal.attackRange)
           stun(x) == stunOutcomes(x, attackTargets)
       IN IF attackTargets # {}
            THEN UNION {stun(x) : x \in performAttack(w1, attackTargets,
                                                         w.animal.attackPower * 15)}
            ELSE {w1}

\* AnimalAI.executeBiteBehavior (bite, gore)
executeBiteBehavior(w, delta) ==
  IF ~HasTarget(w) THEN {w}
  ELSE LET w1 == setVelocity(w, w.animal.moveSpeed, 12, delta)
       IN IF TargetInRange(w)
            THEN performAttack(w1, {w.animal.target}, w.animal.attackPower * 18)
            ELSE {w1}

\* AnimalAI.executeTrampleBehavior: the animal object has no size field, so
\* animal.size.x raises a TypeError once the velocity is set
executeTrampleBehavior(w, delta) ==
  IF ~HasTarget(w) THEN {w}
  ELSE {[setVelocity(w, w.animal.chargeSpeed, 12, delta) EXCEPT !.thrown = TRUE]}

\* the knockback of executeThrowBehavior: 10 along the direction to the
\* target, added to the target's forceAccumulator when it has one
knockback(w) ==
  IF w.animal.target.kind = "fighter"
    THEN LET i == w.animal.target.idx
             f == w.fighters[i]
         IN [w EXCEPT !.fighters[i] =
               IF TargetNan(w) THEN [f EXCEPT !.forceNan = TRUE]
               ELSE AddForce(f, 50000 * Sign(f.position - w.animal.position))]
    ELSE w

\* AnimalAI.executeThrowBehavior
executeThrowBehavior(w, delta) ==
  IF ~HasTarget(w) THEN {w}
  ELSE LET w1 == setVelocity(w, w.animal.moveSpeed, 7, delta)
       IN IF TargetInRange(w)
            THEN {knockback(x) : x \in performAttack(w1, {w.animal.target},
                                                     w.animal.attackPower * 10)}
            ELSE {w1}

\* AnimalAI.executeAmbushBehavior
executeAmbushBehavior(w, delta) ==
  IF ~HasTarget(w) THEN {w}
  ELSE IF ~w.animal.ambushPrepared
    THEN {[w EXCEPT !.velocity = 0, !.velNan = FALSE, !.animal.ambushPrepared = TRUE]}
    ELSE LET w1 == setVelocity(w, w.animal.chargeSpeed, 15, delta)
         IN IF TargetInRange(w)
              THEN performAttack(w1, {w.animal.target}, w.animal.attackPower * 20)
              ELSE {w1}

\* the loop over animal.specialCooldowns at the end of executeBehavior
tickCooldowns(w, delta) ==
  [w EXCEPT !.animal.specialCooldowns =
     [b \in SpecialNames |-> IF @[b] > 0 THEN @[b] - delta ELSE @[b]]]

\* the switch of AnimalAI.executeBehavior
dispatch(w, delta) ==
  LET b == w.animal.currentBehavior
  IN CASE b = "search" -> executeSearchBehavior(w, delta)
       [] b \in {"sweep", "swipe", "tuskSwipe"} -> executeSwipeBehavior(w, delta)
       [] b \in {"pound", "pounce"} -> executePoundBehavior(w, delta)
       [] b \in {"bite", "gore"} -> executeBiteBehavior(w, delta)
       [] b = "trample" -> executeTrampleBehavior(w, delta)
       [] b = "throw" -> executeThrowBehavior(w, delta)
       [] b = "ambush" -> executeAmbushBehavior(w, delta)
       [] OTHER -> executeChargeBehavior(w, delta)

\* AnimalAI.executeBehavior; a behaviour that raised leaves the cooldown
\* loop unexecuted
executeBehavior(w, delta) ==
  { IF x.thrown THEN x ELSE tickCooldowns(x, delta) :
      x \in dispatch([w EXCEPT !.velocity = 0, !.velNan = FALSE], delta) }

\* the end of AnimalAI.update: position += velocity
moveAnimal(w) ==
  IF w.thrown THEN w
  ELSE [w EXCEPT !.animal.position = @ + w.velocity,
                 !.animal.nan = (@ \/ w.velNan)]

\* a target test that looks only for a missing target
needsTargetMissing(w) == ~HasTarget(w)

\* whether AnimalAI.update looks for a new target
needsTarget(w) == ~HasTarget(w) \/ TargetUnit(w).state = "dead"

\* AnimalAI.update: every outcome of the frame's random draws
AnimalAIupdate(w, delta) ==
  IF w.phase # "battle" THEN {w}
  ELSE LET w1 == [w EXCEPT !.behaviorTimer = @ - delta,
                           !.animal = updateRageState(@, delta)]
           selected == IF w1.behaviorTimer <= 0 THEN selectNewBehavior(w1) ELSE {w1}
           act(x) == {moveAnimal(y) : y \in executeBehavior(x, delta)}
           rest(x) == IF x.animal.state = "stunned" THEN {x}
                      ELSE IF needsTarget(x) THEN UNION {act(y) : y \in findNewTarget(x)}
                      ELSE act(x)
       IN UNION {rest(x) : x \in selected}

----------------------------------------------------------------------------
(* Battle orchestration (BattleSimulator) *)

\* the final score of BattleSimulator.endBattle
finalScore(w, playerWins) ==
  IF playerWins
    THEN WinBaseScore + Cardinality(Live(w)) * 100 + Max(0, 30000 - w.time) \div 10
    ELSE ((w.animal.maxHealth - w.animal.health) * 500) \div w.animal.maxHealth

\* BattleSimulator.endBattle
endBattle(w, playerWins) ==
  [w EXCEPT !.phase = "result", !.score = finalScore(w, playerWins)]

\* the loss test the comment above it describes: fighters and commander
playerLosesBoth(w) ==
  (Len(w.fighters) > 0 /\ \A i \in Roster(w) : w.fighters[i].state = "dead")
  /\ w.commander.health <= 0

\* the loss test of BattleSimulator.checkBattleEnd
playerLoses(w) ==
  (Len(w.fighters) > 0 /\ \A i \in Roster(w) : w.fighters[i].state = "dead")
  \/ w.commander.health <= 0

\* checkBattleEnd with the loss test first
checkBattleEndLossFirst(w) ==
  IF (Len(w.fighters) > 0 /\ \A i \in Roster(w) : w.fighters[i].state = "dead")
     \/ w.commander.health <= 0
    THEN [w EXCEPT !.phase = "result",
                   !.score = ((w.animal.maxHealth - w.animal.health) * 500)
                               \div w.animal.maxHealth]
  ELSE IF w.animal.health <= 0
    THEN [w EXCEPT !.phase = "result", !.score = WinBaseScore]
  ELSE w

\* BattleSimulator.checkBattleEnd
checkBattleEnd(w) ==
  IF w.animal.health <= 0 THEN endBattle(w, TRUE)
  ELSE IF playerLoses(w) THEN endBattle(w, FALSE)
  ELSE w

\* a battle frame that runs the animal engine before the fighter engine
updateBattlePhaseAnimalFirst(w, delta, ks, mouse) ==
  LET w1 == [w EXCEPT !.time = @ + delta]
      w2 == updateCommander(w1, delta, ks, mouse)
  IN { IF x.thrown THEN x ELSE checkBattleEnd(FighterAIupdate(x, delta, mouse)) :
         x \in AnimalAIupdate(w2, delta) }

\* BattleSimulator.updateBattlePhase: an error raised by the animal engine
\* leaves the frame before checkBattleEnd
updateBattlePhase(w, delta, ks, mouse) ==
  LET w1 == [w EXCEPT !.time = @ + delta]
      w2 == updateCommander(w1, delta, ks, mouse)
      w3 == FighterAIupdate(w2, delta, mouse)
  IN { IF x.thrown THEN x ELSE checkBattleEnd(x) : x \in AnimalAIupdate(w3, delta) }

\* setupBattle that keeps the animal of the battle that ended
setupBattleKeepAnimal(w) ==
  [w EXCEPT !.fighters = <<>>, !.phase = "setup",
            !.behaviorTimer = 0, !.currentBehavior = "null",
            !.commander = createCommander]

\* setupBattle without the assignment of the phase
setupBattleKeepPhase(w) ==
  [w EXCEPT !.fighters = <<>>,
            !.animal = createAnimal(w.animal.type),
            !.behaviorTimer = 0, !.currentBehavior = "null",
            !.commander = createCommander]

\* BattleSimulator.setupBattle: clearBattle, phase, createAnimal,
\* createCommander; config.animalType is the type the animal was built with
setupBattle(w) ==
  [w EXCEPT !.fighters = <<>>, !.phase = "setup",
            !.animal = createAnimal(w.animal.type),
            !.behaviorTimer = 0, !.currentBehavior = "null",
            !.commander = createCommander]

\* a guard that only looks at the roster
canStartAnyPhase(w) == Len(w.fighters) # 0

\* the guard of BattleSimulator.startBattle
canStart(w) == ~(w.phase # "setup" \/ Len(w.fighters) = 0)

\* BattleSimulator.startBattle past its guard
startBattle(w) ==
  [w EXCEPT !.time = 0, !.score = 0, !.commanderDamageDealt = 0, !.phase = "battle"]

\* BattleSimulator.createFighter past its guard
createFighter(w, pos) == [w EXCEPT !.fighters = Append(@, newFighter(pos))]

\* a cap that is never reached
rosterNeverFull(w) == FALSE

\* the cap of BattleSimulator.createFighter
rosterFull(w) == Len(w.fighters) >= maxFighters

\* what BattleSimulator.placeFighter returns: false outside the setup phase,
\* else what createFighter returns: null at the cap, else the new fighter
placeFighterResult(w) ==
  IF w.phase # "setup" THEN "false"
  ELSE IF rosterFull(w) THEN "null" ELSE "fighter"

\* BattleSimulator.placeFighter
placeFighter(w, pos) ==
  IF placeFighterResult(w) = "fighter" THEN createFighter(w, pos) ELSE w

----------------------------------------------------------------------------
(* State machine *)

\* the simulation state after the step that produced the world w
CommitSim(w) ==
  /\ phase' = w.phase
  /\ time' = w.time
  /\ score' = w.score
  /\ commanderDamageDealt' = w.commanderDamageDealt
  /\ fighters' = w.fighters
  /\ commander' = w.commander
  /\ animal' = w.animal
  /\ behaviorTimer' = w.behaviorTimer
  /\ currentBehavior' = w.currentBehavior
  /\ attackTarget' = w.attackTarget
  /\ currentFormation' = w.currentFormation
  /\ calls' = w.calls

\* the program state after the step that produced the world w, with the
\* scene left aside: the callbacks the step scheduled are not followed
Commit(w) == CommitSim(w) /\ pending' = pending

\* new BattleSimulator(options): the constructor ends with setupBattle()
Init ==
  /\ phase = "setup"
  /\ time = 0
  /\ score = 0
  /\ commanderDamageDealt = 0
  /\ fighters = <<>>
  /\ commander = createCommander
  /\ animal \in {createAnimal(t) : t \in ConfigTypes}
  /\ behaviorTimer = 0
  /\ currentBehavior = "null"
  /\ attackTarget = 4000
  /\ currentFormation = "circle"
  /\ ret = "none"
  /\ calls = <<>>
  /\ frames = 0
  /\ pending = {}

\* animate -> update(delta) in the setup phase: the commander turns slowly
UpdateSetup ==
  /\ phase = "setup"
  /\ \E r \in Facings : Commit([World EXCEPT !.commander.rotation = r])
  /\ ret' = "done"
  /\ UNCHANGED frames

\* animate -> update(delta) in the battle phase.  InputManager.keys and
\* mouse.isDown are read, never written, by the frame; the key and button
\* events between two frames can leave them at any value, so they are drawn
\* here: ks is the set of held codes, mouse is mouse.isDown
UpdateBattle(D) ==
  /\ phase = "battle"
  /\ frames < MaxFrames
  /\ \E delta \in D, ks \in SUBSET HeldCodes, mouse \in BOOLEAN :
       \E w \in updateBattlePhase(World, delta, ks, mouse) :
          /\ Commit(w)
          /\ ret' = IF w.thrown THEN "threw" ELSE "done"
  /\ frames' = frames + 1

\* a result phase in which the clock keeps running
UpdateResultClock ==
  /\ phase = "result"
  /\ Commit([World EXCEPT !.time = @ + 25])
  /\ ret' = "done"
  /\ UNCHANGED frames

\* animate -> update(delta) in the result phase
UpdateResult ==
  /\ phase = "result"
  /\ Commit(World)
  /\ ret' = "done"
  /\ UNCHANGED frames

\* mousedown on the ground: handleMouseClick -> placeFighter -> createFighter
MouseDown ==
  /\ IF phase = "setup"
       THEN \E pos \in PlacePositions :
              /\ Commit(placeFighter(World, pos))
              /\ ret' = placeFighterResult(World)
       ELSE Commit(World) /\ ret' = ret
  /\ UNCHANGED frames

\* a call of BattleSimulator.startBattle, from any phase
StartBattle ==
  /\ phase = "battle" => frames \in ControlFrames
  /\ IF canStart(World)
       THEN Commit(startBattle(World)) /\ ret' = "true"
       ELSE Commit(World) /\ ret' = "false"
  /\ UNCHANGED frames

\* handleKeyPress('Space', true)
KeySpace ==
  IF phase = "setup"
    THEN IF canStart(World)
           THEN Commit(startBattle(World)) /\ ret' = "true" /\ frames' = frames
           ELSE Commit(World) /\ ret' = "false" /\ frames' = frames
    ELSE Commit(World) /\ ret' = ret /\ frames' = frames

\* the next name in ['circle', 'line', 'arrow', 'scatter']
nextFormation(f) ==
  CASE f = "circle" -> "line"
    [] f = "line" -> "arrow"
    [] f = "arrow" -> "scatter"
    [] OTHER -> "circle"

\* handleKeyPress('KeyF', true)
KeyF ==
  /\ phase = "battle"
  /\ frames \in ControlFrames
  /\ Commit([World EXCEPT !.currentFormation = nextFormation(@), !.calls = calls])
  /\ UNCHANGED <<ret, frames>>

\* handleKeyPress('KeyR', true)
KeyR ==
  /\ phase = "result"
  /\ Commit([setupBattle(World) EXCEPT !.calls = calls])
  /\ UNCHANGED <<ret, frames>>

\* handleKeyPress('KeyC', true): toggleCameraView in the battle phase writes
\* cameraMode only, which no part of the simulation reads, and returns nothing
KeyC ==
  /\ phase = "battle"
  /\ frames \in ControlFrames
  /\ Commit([World EXCEPT !.calls = calls])
  /\ ret' = "undefined"
  /\ UNCHANGED frames

Next ==
  \/ UpdateSetup
  \/ UpdateBattle(Deltas)
  \/ UpdateResult
  \/ MouseDown
  \/ StartBattle
  \/ KeySpace
  \/ KeyF
  \/ KeyR
  \/ KeyC

Spec == Init /\ [][Next]_vars

\* state.time of the battles in progress that InitBattle starts from
LateTime == 180000

\* the battles in progress: the animal one point and the commander one hit
\* from defeat; the fighters one pound from defeat
BothWeak ==
  [animalHealth |-> 10, commanderHealth |-> 20,
   fighterHealth |-> FighterHealth, secondHealth |-> FighterHealth]
FightersWeak ==
  [animalHealth |-> 5000, commanderHealth |-> CommanderHealth,
   fighterHealth |-> 20, secondHealth |-> 9]

Scenarios == {BothWeak, FightersWeak}

\* config.animalType of the runs in which the page stalls
StallTypes == {"bear"}

\* A battle in progress: the animal stands at -10 m on its target, the
\* commander, 2 m away; n fighters stand around the animal within reach; the
\* behaviour timer is about to expire; every cooldown has run out; the healths
\* are those of one of the Scenarios
lateFighter(i, health) ==
  [newFighter(-1200 + 100 * (i - 1)) EXCEPT
     !.health = health, !.state = "attacking", !.lastAttackTime = LateTime - 100]

InProgress(types, sizes, scenarios) ==
  \E t \in types, n \in sizes, sc \in scenarios :
    /\ phase = "battle"
    /\ time = LateTime
    /\ score = 0
    /\ commanderDamageDealt = 0
    /\ fighters = [i \in 1..n |->
                    lateFighter(i, IF i % 2 = 0 THEN sc.secondHealth
                                   ELSE sc.fighterHealth)]
    /\ commander = [createCommander EXCEPT !.position = -800,
                                           !.health = sc.commanderHealth,
                                           !.lastAttackTime = LateTime - 100]
    /\ animal = [createAnimal(t) EXCEPT !.position = -1000,
                                        !.health = sc.animalHealth,
                                        !.target = CommanderRef,
                                        !.currentBehavior = "charge",
                                        !.lastAttackTime = LateTime - 100,
                                        !.attackCooldown = NormalCooldown]
    /\ behaviorTimer = 25
    /\ currentBehavior = "charge"
    /\ attackTarget = 4000
    /\ currentFormation = "circle"
    /\ ret = "done"
    /\ calls = <<>>
    /\ frames = 0
    /\ pending = {}

InitBattle == InProgress(ConfigTypes, {1, maxFighters}, Scenarios)

SpecBattle == InitBattle /\ [][Next]_vars

\* the same program when the page stalls between the frames of the battle
NextStall ==
  \/ UpdateSetup
  \/ UpdateBattle(StallDeltas)
  \/ UpdateResult
  \/ MouseDown
  \/ StartBattle
  \/ KeySpace
  \/ KeyF
  \/ KeyR
  \/ KeyC

InitStall == InProgress(StallTypes, {1}, Scenarios)

SpecStall == InitStall /\ [][NextStall]_vars

\* the same program from a battle in which the animal is enraged and its
\* recentDamage has decayed to between 5% and 10% of maxHealth;
\* requestAnimationFrame keeps the frames coming
RageLevels == {56000, 60000}

InitRage ==
  \E r \in RageLevels :
    /\ phase = "battle"
    /\ time = LateTime
    /\ score = 0
    /\ commanderDamageDealt = 0
    /\ fighters = <<lateFighter(1, FighterHealth)>>
    /\ commander = [createCommander EXCEPT !.position = -800,
                                           !.lastAttackTime = LateTime - 100]
    /\ animal = [enrage(createAnimal("gorilla")) EXCEPT
                   !.position = -1000,
                   !.health = 10,
                   !.target = CommanderRef,
                   !.currentBehavior = "charge",
                   !.lastAttackTime = LateTime - 100,
                   !.attackCooldown = EnragedCooldown,
                   !.recentDamage = r]
    /\ behaviorTimer = 25
    /\ currentBehavior = "charge"
    /\ attackTarget = 4000
    /\ currentFormation = "circle"
    /\ ret = "done"
    /\ calls = <<>>
    /\ frames = 0
    /\ pending = {}

\* animate() asks for the next frame each time it runs: during a battle a
\* frame is taken again and again (the step of Next that counts a frame is
\* UpdateBattle, which is enabled whenever this is)
Tick == phase = "battle" /\ frames < MaxFrames /\ frames' = frames + 1

SpecRage == InitRage /\ [][Next]_vars /\ WF_frames(Tick)

\* the same program with its scene effects followed: a battle frame leaves
\* the callbacks it scheduled in pending
UpdateBattleScene(D) ==
  /\ phase = "battle"
  /\ frames < MaxFrames
  /\ \E delta \in D, ks \in SUBSET HeldCodes, mouse \in BOOLEAN :
       \E w \in updateBattlePhase(World, delta, ks, mouse) :
          /\ CommitSim(w)
          /\ pending' = w.pending
          /\ ret' = IF w.thrown THEN "threw" ELSE "done"
  /\ frames' = frames + 1

\* a flash callback that also resets the animal's attack timer
CallbackResetsTimer ==
  /\ \E c \in pending : pending' = pending \ {c}
  /\ ret' = "callback"
  /\ animal' = [animal EXCEPT !.lastAttackTime = 0]
  /\ UNCHANGED <<phase, time, score, commanderDamageDealt, fighters, commander,
                 behaviorTimer, currentBehavior, attackTarget,
                 currentFormation, calls, frames>>

\* a delayed callback runs, at any moment after it was scheduled: the
\* setTimeout callbacks of playFighterAttackAnimation and playAttackEffect
\* (mesh.scale.set(1, 1, 1)) and of createAttackEffect (scene.remove(line),
\* dispose), and the last animateRing of createRallyEffect
\* (scene.remove(ring), dispose).  They write the scene only.
CallbackFires ==
  /\ \E c \in pending : pending' = pending \ {c}
  /\ ret' = "callback"
  /\ UNCHANGED <<phase, time, score, commanderDamageDealt, fighters, commander,
                 animal, behaviorTimer, currentBehavior, attackTarget,
                 currentFormation, calls, frames>>

NextCallbacks ==
  \/ UpdateSetup
  \/ UpdateBattleScene(Deltas)
  \/ UpdateResult
  \/ MouseDown
  \/ StartBattle
  \/ KeySpace
  \/ KeyF
  \/ KeyR
  \/ KeyC
  \/ CallbackFires

InitCallbacks == InProgress({"gorilla"}, {1}, {BothWeak})

SpecCallbacks == InitCallbacks /\ [][NextCallbacks]_vars

\* the same program on a page that drops frames, with a lion: the battle in
\* progress ends, the player resets it and fights a second one
NextSlow ==
  \/ UpdateSetup
  \/ UpdateBattle(SlowDeltas)
  \/ UpdateResult
  \/ MouseDown
  \/ StartBattle
  \/ KeySpace
  \/ KeyF
  \/ KeyR
  \/ KeyC

InitSlow == InProgress({"lion"}, {1}, {BothWeak})

SpecSlow == InitSlow /\ [][NextSlow]_vars

\* the same program with a tiger when the page stalls between the frames
InitAmbush == InProgress({"tiger"}, {1}, Scenarios)

SpecAmbush == InitAmbush /\ [][NextStall]_vars

----------------------------------------------------------------------------
(* Properties *)

\* the performAttack calls of the last battle frame
Calls == {calls[k] : k \in DOMAIN calls}

AllDead(fs) == \A i \in DOMAIN fs : fs[i].state = "dead"

\* C1: a performAttack call made less than animal.attackCooldown of game
\* time after the last accepted call returns false, changes no unit's health
\* and leaves lastAttackTime; a call is accepted only a full cooldown after
\* the last accepted one, so of two calls less than a cooldown apart exactly
\* one applies damage.
C1_CooldownMonotonic ==
  \A c \in Calls :
    /\ c.accepted => c.at - c.last >= c.cooldown
    /\ c.at - c.last < c.cooldown =>
         /\ ~c.accepted
         /\ \A t \in DOMAIN c.loss : c.loss[t] = 0
         /\ c.lastAfter = c.last

\* a call with a target in reach is rejected less than a cooldown after an
\* attack the battle frames of this run made
C1_Witness ==
  \E c \in Calls : ~c.accepted /\ c.targets # {} /\ c.last > LateTime
                   /\ c.at - c.last < c.cooldown

\* C2: in every reachable state the health of each fighter, of the commander
\* and of the animal is >= 0.
C2_HealthNonNegative ==
  /\ animal.health >= 0
  /\ commander.health >= 0
  /\ \A i \in DOMAIN fighters : fighters[i].health >= 0

\* C3: a fighter's state is 'dead' exactly when its health is 0, and a dead
\* fighter stays dead in every step but the one in which setupBattle empties
\* the roster.
C3_DeadIsZeroAndStays ==
  [][ /\ \A i \in DOMAIN fighters :
           (fighters[i].state = "dead") <=> (fighters[i].health = 0)
      /\ \A i \in DOMAIN fighters' :
           (fighters'[i].state = "dead") <=> (fighters'[i].health = 0)
      /\ \A i \in DOMAIN fighters :
           fighters[i].state = "dead" =>
             \/ (phase' = "setup" /\ fighters' = <<>>)
             \/ (i \in DOMAIN fighters' /\ fighters'[i].state = "dead"
                                        /\ fighters'[i].health = 0) ]_vars

\* a fighter is dead while the battle goes on beside a living fighter
C3_Witness ==
  /\ phase = "battle"
  /\ \E i \in DOMAIN fighters : fighters[i].state = "dead" /\ fighters[i].health = 0
  /\ \E i \in DOMAIN fighters : fighters[i].state # "dead"

C5_AreaAttackOnce ==
  /\ Cardinality({k \in DOMAIN calls : calls[k].accepted}) <= 1
  /\ \A c \in Calls :
       (c.accepted /\ Cardinality(c.targets) > 1) =>
          /\ c.lastAfter = c.at
          /\ c.at - c.last >= c.cooldown
          /\ \A t \in DOMAIN c.loss :
                /\ c.loss[t] >= 0
                /\ c.loss[t] <= (c.base * 12) \div 1000
                /\ (t \notin c.live) => c.loss[t] = 0

\* an accepted attack on two targets or more that takes health from two
C5_Witness ==
  \E c \in Calls :
     /\ c.accepted
     /\ Cardinality(c.targets) > 1
     /\ Cardinality({t \in c.targets : c.loss[t] > 0}) > 1

\* C6: no battle frame fails: AnimalAI.update raises no error, so every
\* battle frame reaches checkBattleEnd.
C6_NoTickFails == ret # "threw"

\* C7: when the animal's health is <= 0 at the end-of-tick check, the frame
\* ends the battle with a win: phase 'result' and score >= 1000, whether or
\* not the loss test holds too.
C7_WinOnAnimalDefeat ==
  (ret = "done" /\ animal.health <= 0) => (phase = "result" /\ score >= WinBaseScore)

\* the animal and the commander are defeated in the same frame
C7_Witness ==
  /\ ret = "done"
  /\ phase = "result"
  /\ animal.health <= 0
  /\ commander.health <= 0
  /\ score >= WinBaseScore

\* C8: after a checkBattleEnd with every fighter of the roster dead, the
\* commander alive and the animal alive, the phase is still 'battle'.
C8_NoEndWhileCommanderAlive ==
  (ret = "done" /\ Len(fighters) > 0 /\ AllDead(fighters)
     /\ commander.health > 0 /\ animal.health > 0)
  => phase = "battle"

StartCall == StartBattle \/ (phase = "setup" /\ KeySpace)

\* C10: startBattle succeeds exactly when phase = 'setup' and the roster is
\* non-empty; otherwise it returns false and leaves phase, time, score and
\* roster; the phase becomes 'battle' by no other step, and in phase 'battle'
\* the roster is non-empty.
C10_StartBattleGuard ==
  [][ /\ StartCall =>
           IF phase = "setup" /\ Len(fighters) >= 1
             THEN phase' = "battle" /\ ret' = "true" /\ fighters' = fighters
             ELSE ret' = "false" /\ UNCHANGED <<phase, time, score, fighters>>
      /\ (phase # "battle" /\ phase' = "battle") =>
           (phase = "setup" /\ Len(fighters) >= 1 /\ ret' = "true")
      /\ phase' = "battle" => Len(fighters') >= 1 ]_vars

\* a battle started from the setup phase with a fighter on the roster
C10_Witness ==
  /\ ret = "true"
  /\ phase = "battle"
  /\ time = 0
  /\ Len(fighters) >= 1

\* the program state but the roster
NonRoster ==
  <<phase, time, score, commanderDamageDealt, commander, animal, behaviorTimer,
    currentBehavior, attackTarget, currentFormation>>

\* C11: the roster grows only by one fighter, by a placement in the setup
\* phase with fewer than maxFighters fighters, and nothing else changes; a
\* placement at the cap returns null and changes nothing; the roster never
\* holds more than maxFighters fighters.
C11_PlaceFighterGuard ==
  [][ /\ Len(fighters') > Len(fighters) =>
           /\ phase = "setup" /\ Len(fighters) < maxFighters
           /\ ret' = "fighter"
           /\ \E pos \in PlacePositions : fighters' = Append(fighters, newFighter(pos))
           /\ UNCHANGED NonRoster
      /\ (MouseDown /\ ~(phase = "setup" /\ Len(fighters) < maxFighters)) =>
           /\ UNCHANGED <<fighters, NonRoster>>
           /\ ret' # "fighter"
           /\ phase = "setup" => ret' = "null"
      /\ Len(fighters) <= maxFighters /\ Len(fighters') <= maxFighters ]_vars

\* a placement refused at the cap
C11_Witness ==
  phase = "setup" /\ ret = "null" /\ Len(fighters) = maxFighters

\* C12: the slot position the formation engine computes is a defined number
\* for every fighter of every roster, in every formation kind: the division
\* by (totalCount - 1) of the line and by (fighters in the row - 1) of the
\* arrow never yields 0/0.
C12_SlotDefined ==
  phase = "battle" =>
    \A i \in DOMAIN fighters : ~getFormationPosition(World, i).nan

\* the state of the fighters after the fighter engine has run on this state
\* in a frame of length delta with the keys ks held and the button at mouse
AfterFighterEngine(delta, ks, mouse) ==
  FighterAIupdate(updateCommander([World EXCEPT !.time = @ + delta], delta, ks, mouse),
                  delta, mouse).fighters

\* C13: a live fighter whose health is below 20% of its maxHealth when the
\* fighter engine starts has, when the engine is done, state 'fleeing' and
\* as its force accumulator the flee force alone, 1.4 units along the
\* direction from the animal to the fighter, whatever the other forces added.
C13_InjuredFlee ==
  phase = "battle" =>
    \A delta \in Deltas, ks \in SUBSET HeldCodes, mouse \in BOOLEAN :
      LET after == AfterFighterEngine(delta, ks, mouse)
      IN \A i \in DOMAIN fighters :
           LET f == fighters[i]
               g == after[i]
           IN (f.state # "dead" /\ f.health * 5 < f.maxHealth) =>
                /\ g.state = "fleeing"
                /\ g.forceNan = (f.nan \/ animal.nan)
                /\ ~g.forceNan => g.forceAccumulator = 7000 * Sign(f.position - animal.position)

\* a battle frame has left an injured live fighter fleeing under the flee
\* force, away from its formation slot
C13_Witness ==
  /\ phase = "battle"
  /\ frames > 0
  /\ \E i \in DOMAIN fighters :
        /\ fighters[i].state = "fleeing"
        /\ fighters[i].health * 5 < fighters[i].maxHealth
        /\ ~fighters[i].nan /\ ~fighters[i].forceNan
        /\ fighters[i].forceAccumulator = 7000 * Sign(fighters[i].position - animal.position)
        /\ ~getFormationPosition(World, i).nan
        /\ getFormationPosition(World, i).z # fighters[i].position

\* the animal after the commander update and the fighter engine have run on
\* this state, before the animal engine decays recentDamage
AnimalAfterHits(delta, ks, mouse) ==
  FighterAIupdate(updateCommander([World EXCEPT !.time = @ + delta], delta, ks, mouse),
                  delta, mouse).animal

\* C14: the hits of the commander and of the fighters in a frame add to
\* animal.recentDamage exactly the health they take from the animal (health
\* in tenths, recentDamage in thousandths).
C14_HitsRecorded ==
  phase = "battle" =>
    \A delta \in Deltas, ks \in SUBSET HeldCodes, mouse \in BOOLEAN :
      LET a == AnimalAfterHits(delta, ks, mouse)
      IN a.recentDamage - animal.recentDamage = (animal.health - a.health) * 100

\* type names that are not in the catalogue
UnknownTypes == {"unicorn", "", "constructor"}

\* C15: in whatever phase it is called, createAnimal with a type that is not
\* in the catalogue raises no error and returns a gorilla at full health, not
\* enraged, with no recent damage and no special cooldown.
C15_UnknownTypeFallsBack ==
  \A type \in UnknownTypes :
    /\ phase \in {"setup", "battle", "result"} => ~createAnimalThrows(type)
    /\ LET a == createAnimal(type)
       IN /\ a.type = "gorilla"
          /\ a.health = a.maxHealth /\ a.maxHealth = animalTypes["gorilla"].health
          /\ ~a.isEnraged /\ a.recentDamage = 0
          /\ \A b \in DOMAIN a.specialCooldowns : a.specialCooldowns[b] = 0

\* a step that is a battle frame
BattleFrame == phase = "battle" /\ frames' = frames + 1

\* no fighter lands a hit in this step
NoFighterHit ==
  \A i \in DOMAIN fighters :
    i \in DOMAIN fighters' /\ fighters'[i].lastAttackTime = fighters[i].lastAttackTime

\* C16: in a battle frame the commander lands at most one hit; a hit adds 5
\* to commanderDamageDealt, needs the animal within attackRange of the
\* commander and at least attackCooldown (0.5 s) of game time since the last
\* accepted hit, and restarts the cooldown; in a frame without a fighter hit
\* the animal loses exactly the 5 points of the commander's hit, or nothing
\* (so n hits with no fighter damage leave maxHealth - 5*n and dealt 5*n).
C16_CommanderHits ==
  [][ BattleFrame =>
        LET d == commanderDamageDealt' - commanderDamageDealt
        IN /\ d \in {0, CommanderAttackPower}
           /\ d = CommanderAttackPower =>
                /\ time' - commander.lastAttackTime >= CommanderAttackCooldown
                /\ commander'.lastAttackTime = time'
                /\ distanceTo(commander'.position, animal.position)
                     <= CommanderAttackRange
           /\ d = 0 => commander'.lastAttackTime = commander.lastAttackTime
           /\ NoFighterHit => animal.health - animal'.health = d * 10 ]_vars

\* the second accepted hit of the commander, in a frame without a fighter hit
C16_Witness ==
  /\ phase = "battle"
  /\ commanderDamageDealt = 2 * CommanderAttackPower
  /\ commander.lastAttackTime = time
  /\ \A i \in DOMAIN fighters : fighters[i].lastAttackTime < time

\* the world after the commander update of a frame on this state
AfterCommander(delta, ks, mouse) ==
  updateCommander([World EXCEPT !.time = @ + delta], delta, ks, mouse)

\* the world after the commander update and the fighter engine
AfterFighters(delta, ks, mouse) ==
  FighterAIupdate(AfterCommander(delta, ks, mouse), delta, mouse)

\* C17: the fighters that attack in a frame take from the animal 1.5 points
\* each if they are commander-influenced (rallied) when the fighter engine
\* starts, and 1 point each if they are not (health in tenths; the
\* commander's own hit is set apart).
C17_RallyBonus ==
  phase = "battle" =>
    \A delta \in Deltas, ks \in SUBSET HeldCodes, mouse \in BOOLEAN :
      LET wc == AfterCommander(delta, ks, mouse)
          wf == AfterFighters(delta, ks, mouse)
          hitters == {i \in DOMAIN fighters :
                        wf.fighters[i].lastAttackTime # fighters[i].lastAttackTime}
          rallied == {i \in hitters : wc.fighters[i].commanderInfluence}
      IN wc.animal.health - wf.animal.health
           = 15 * Cardinality(rallied) + 10 * Cardinality(hitters \ rallied)

\* C18: at the end of every frame, and already when the fighter engine is
\* done, the commanderInfluence flag of every fighter is false.
C18_InfluenceConsumed ==
  /\ \A i \in DOMAIN fighters : ~fighters[i].commanderInfluence
  /\ phase = "battle" =>
       \A delta \in Deltas, ks \in SUBSET HeldCodes, mouse \in BOOLEAN :
         LET after == AfterFighters(delta, ks, mouse).fighters
         IN \A i \in DOMAIN fighters : ~after[i].commanderInfluence

\* after a battle frame, a rally (E held) flags a live fighter and the
\* fighter engine of the same frame clears the flag
C18_Witness ==
  /\ phase = "battle"
  /\ frames > 0
  /\ \E delta \in Deltas, i \in DOMAIN fighters :
        /\ AfterCommander(delta, {"KeyE"}, FALSE).fighters[i].commanderInfluence
        /\ ~AfterFighters(delta, {"KeyE"}, FALSE).fighters[i].commanderInfluence

\* C19: a battle frame in which the animal's attacks were all rejected by the
\* cooldown leaves every unit as the commander update and the fighter engine
\* of that frame left it: no health, state, stunned flag, stunTime or force
\* accumulator is changed by the behaviour that issued the rejected attack.
C19_RejectedNoEffect ==
  [][ (BattleFrame /\ calls' # <<>> /\ \A k \in DOMAIN calls' : ~calls'[k].accepted) =>
        \E delta \in Deltas, ks \in SUBSET HeldCodes, mouse \in BOOLEAN :
           /\ fighters' = AfterFighters(delta, ks, mouse).fighters
           /\ commander' = AfterFighters(delta, ks, mouse).commander ]_vars

\* C20: the phase changes only along setup -> battle -> result -> setup:
\* to 'battle' only from 'setup' by a startBattle that returns true, to
\* 'result' only from 'battle' at the end of a battle frame (endBattle), to
\* 'setup' only from 'result' by setupBattle (empty roster, fresh animal and
\* commander); the formation is cycled (F) and the camera toggled (C) only in
\* phase 'battle' with the phase kept, and a roster is emptied (R) only by
\* the step from 'result' to 'setup'.
C20_PhaseCycle ==
  [][ /\ phase' # phase =>
           \/ phase = "setup" /\ phase' = "battle" /\ ret' = "true"
           \/ phase = "battle" /\ phase' = "result" /\ frames' = frames + 1
           \/ /\ phase = "result" /\ phase' = "setup"
              /\ fighters' = <<>>
              /\ animal' = createAnimal(animal.type)
              /\ commander' = createCommander
      /\ currentFormation' # currentFormation => (phase = "battle" /\ phase' = "battle")
      /\ (ret' = "undefined" /\ ret # "undefined") => (phase = "battle" /\ phase' = "battle")
      /\ (fighters # <<>> /\ fighters' = <<>>) => (phase = "result" /\ phase' = "setup") ]_vars

\* a second battle, started from the setup phase that followed the result of
\* an earlier one
C20_Witness ==
  /\ phase = "battle"
  /\ ret = "true"
  /\ time = 0
  /\ frames > 0

\* C21: the step that re-enters the setup phase (setupBattle) leaves an empty
\* roster, an animal of the same type at full health of its profile, with the
\* profile's attack power and speeds, not enraged, recentDamage 0,
\* lastAttackTime 0, no special cooldown running and no target, a commander
\* at full health with lastAttackTime 0, and the animal engine's behaviour
\* timer and current behaviour reset.
C21_ResetDiscards ==
  [][ (phase # "setup" /\ phase' = "setup") =>
        /\ fighters' = <<>>
        /\ animal'.type = animal.type
        /\ animal'.health = animalTypes[animal.type].health
        /\ animal'.maxHealth = animal'.health
        /\ animal'.attackPower = animalTypes[animal.type].attackPower
        /\ animal'.moveSpeed = animalTypes[animal.type].moveSpeed
        /\ animal'.chargeSpeed = animalTypes[animal.type].chargeSpeed
        /\ ~animal'.isEnraged /\ animal'.recentDamage = 0
        /\ animal'.lastAttackTime = 0
        /\ animal'.attackCooldown = InitialAnimalCooldown
        /\ \A b \in DOMAIN animal'.specialCooldowns : animal'.specialCooldowns[b] = 0
        /\ animal'.target = NoTarget /\ animal'.state = "idle"
        /\ commander'.health = CommanderHealth /\ commander'.maxHealth = CommanderHealth
        /\ commander'.lastAttackTime = 0 /\ commander'.position = 0
        /\ behaviorTimer' = 0 /\ currentBehavior' = "null" ]_vars

\* the setup phase that follows a battle: frames were played, a score was
\* given, and the roster is empty again with the animal at full health
C21_Witness ==
  /\ phase = "setup"
  /\ frames > 0
  /\ score > 0
  /\ fighters = <<>>
  /\ animal.health = animal.maxHealth
  /\ ~animal.isEnraged
  /\ commander.health = CommanderHealth

\* C22: a step in which a delayed callback runs (pending loses an entry)
\* changes no unit, nor the roster, the phase, the time, the score or the
\* engines' state, whatever frames, key events and resets came between its
\* scheduling and its run.
C22_CallbacksInert ==
  [][ (pending' # pending /\ pending' \subseteq pending) =>
        UNCHANGED <<phase, time, score, commanderDamageDealt, fighters, commander,
                    animal, behaviorTimer, currentBehavior, attackTarget,
                    currentFormation>> ]_vars

\* a callback of the battle that ended has run after the reset and after a
\* fighter of the next battle was placed, with another one still to run
C22_Witness ==
  /\ phase = "setup"
  /\ frames > 0
  /\ Len(fighters) >= 1
  /\ ret = "callback"
  /\ pending # {}

\* the formation names of FighterAI.formations
FormationNames == {"circle", "line", "arrow", "scatter"}

\* this state with everything changed but the formation kind, the roster
\* size, the formation centre and the facing
Elsewhere(w) ==
  [w EXCEPT !.time = @ + 1, !.score = @ + 1, !.attackTarget = @ + 1,
            !.animal.position = @ + 100, !.animal.health = 1,
            !.commander.health = 1, !.commander.lastAttackTime = @ + 1,
            !.fighters = [j \in DOMAIN w.fighters |->
                            [w.fighters[j] EXCEPT !.position = @ + 50, !.health = 1,
                                                  !.state = "fleeing",
                                                  !.forceAccumulator = @ + 1]]]

C24_TickOrder ==
  [][ BattleFrame =>
        \E delta \in Deltas, ks \in SUBSET HeldCodes, mouse \in BOOLEAN :
          LET wf == AfterFighters(delta, ks, mouse)
          IN /\ time' = time + delta
             /\ commander'.position = wf.commander.position
             /\ \A i \in DOMAIN fighters :
                  /\ fighters'[i].position = wf.fighters[i].position
                  /\ fighters'[i].nan = wf.fighters[i].nan
                  /\ fighters'[i].lastAttackTime = wf.fighters[i].lastAttackTime
                  /\ fighters[i].state = "dead" => fighters'[i] = fighters[i]
             /\ ret' = "done" =>
                  ((phase' = "result") <=>
                     \/ animal'.health <= 0
                     \/ commander'.health <= 0
                     \/ \A i \in DOMAIN fighters' : fighters'[i].state = "dead") ]_vars

\* a fighter that attacked in this frame and was killed by the animal later
\* in the same frame, in a battle that goes on
C24_Witness ==
  /\ phase = "battle"
  /\ frames > 0
  /\ animal.lastAttackTime = time
  /\ \E i \in DOMAIN fighters :
        /\ fighters[i].state = "dead"
        /\ fighters[i].lastAttackTime = time

\* this state with its dead fighters lying at position p and, if rested, its
\* living fighters at full health
DeadMovedTo(p, rested) ==
  [World EXCEPT !.fighters = [j \in DOMAIN fighters |->
                                IF fighters[j].state = "dead"
                                  THEN [fighters[j] EXCEPT !.position = p, !.nan = FALSE]
                                ELSE IF rested
                                  THEN [fighters[j] EXCEPT !.health = fighters[j].maxHealth]
                                ELSE fighters[j]]]

\* places within reach of the animal and of the living fighters
DeadPlaces ==
  {animal.position + 100} \cup
  {fighters[j].position + 100 : j \in {k \in DOMAIN fighters : fighters[k].state # "dead"}}

\* the commander update and the fighter engine of a frame, run on the world w
EnginesOn(w, delta, ks, mouse) ==
  FighterAIupdate(updateCommander([w EXCEPT !.time = @ + delta], delta, ks, mouse),
                  delta, mouse)

\* the roster is kept and the dead stay as they are, step by step
RosterFixed ==
  (phase \in {"battle", "result"} /\ phase' \in {"battle", "result"}) =>
     /\ Len(fighters') = Len(fighters)
     /\ \A i \in DOMAIN fighters :
          /\ fighters'[i].maxHealth = fighters[i].maxHealth
          /\ fighters[i].state = "dead" => fighters'[i] = fighters[i]
          /\ (animal'.target # animal.target /\ animal'.target = FighterRef(i))
               => fighters[i].state # "dead"

\* with a dead fighter on the roster, wherever it lies and whether the living
\* are injured or not, the fighter engine does to the living and to the
\* animal what it does when the dead lie far away from every unit, and
\* leaves the dead as they are
DeadExertNothing ==
  (phase = "battle" /\ \E i \in DOMAIN fighters : fighters[i].state = "dead") =>
     \A delta \in Deltas, ks \in SUBSET HeldCodes, mouse \in BOOLEAN :
        /\ LET now == EnginesOn(World, delta, ks, mouse)
           IN \A i \in DOMAIN fighters :
                 fighters[i].state = "dead" => now.fighters[i] = fighters[i]
        /\ \A rested \in BOOLEAN :
             LET far == EnginesOn(DeadMovedTo(1000000, rested), delta, ks, mouse)
             IN \A p \in DeadPlaces :
                  LET near == EnginesOn(DeadMovedTo(p, rested), delta, ks, mouse)
                  IN /\ near.animal = far.animal
                     /\ \A i \in DOMAIN fighters :
                          fighters[i].state # "dead" => near.fighters[i] = far.fighters[i]

\* C25: in the battle and result phases the roster keeps its length and its
\* order; a dead fighter is left as it is by every step (position, state,
\* lastAttackTime, health: no engine moves it, no attack hits it), the animal
\* never takes a dead fighter as its new target, and a dead fighter neither
\* damages the animal nor pushes the living apart.
C25_DeadInert == [][RosterFixed]_vars /\ []DeadExertNothing

\* a battle that goes on after the animal killed a fighter in an earlier
\* frame: the last frame ran with a dead and a living fighter on the roster
C25_Witness ==
  /\ phase = "battle"
  /\ frames >= 2
  /\ animal.lastAttackTime < time
  /\ \E i, j \in DOMAIN fighters :
        /\ fighters[i].state = "dead" /\ fighters[i].health = 0
        /\ fighters[j].state # "dead"

\* the fighters whose lastAttackTime the frame has set
Hitters == {i \in DOMAIN fighters : fighters'[i].lastAttackTime # fighters[i].lastAttackTime}

\* C26: in a battle frame the animal's health goes down by the commander's
\* hit and by 1 for each fighter whose lastAttackTime the frame sets, and by
\* nothing else; such a fighter is, when the fighter engine has steered and
\* moved it, in state 'attacking' and within 2 units of the animal, more than
\* 1 s of game time has passed since its previous lastAttackTime, and its new
\* lastAttackTime is the time of the frame.
C26_FighterHitGuard ==
  [][ BattleFrame =>
        \E delta \in Deltas, ks \in SUBSET HeldCodes, mouse \in BOOLEAN :
          LET wf == AfterFighters(delta, ks, mouse)
              byCommander == IF commander'.lastAttackTime # commander.lastAttackTime
                               THEN CommanderAttackPower * 10 ELSE 0
          IN /\ time' = time + delta
             /\ animal'.health = animal.health - byCommander - 10 * Cardinality(Hitters)
             /\ \A i \in Hitters :
                  /\ wf.fighters[i].state = "attacking"
                  /\ distanceTo(wf.fighters[i].position, animal.position) <= FighterAttackRange
                  /\ time' - fighters[i].lastAttackTime > FighterAttackCooldown
                  /\ fighters'[i].lastAttackTime = time' ]_vars

\* after a frame, one fighter has hit the animal at the time of the frame
\* and another, fleeing, has not
C26_Witness ==
  /\ phase = "battle"
  /\ frames > 0
  /\ \E i, j \in DOMAIN fighters :
        /\ fighters[i].state = "attacking" /\ fighters[i].lastAttackTime = time
        /\ fighters[j].state = "fleeing" /\ fighters[j].lastAttackTime < time

\* C27: the animal's attackCooldown is 0.7 s whenever it is enraged and a
\* non-enraged value (1 s, or the 2 s it is created with) whenever it is not.
C27_CooldownMatchesRage ==
  /\ animal.isEnraged => animal.attackCooldown = EnragedCooldown
  /\ ~animal.isEnraged => animal.attackCooldown \in {NormalCooldown, InitialAnimalCooldown}

\* the flag of the enraged state changes in a battle frame only: to true
\* only when recentDamage, decayed, is above 10% of maxHealth, to false only
\* when it is below 5%; outside a frame only a reset clears it
RageSteps ==
  /\ (~animal.isEnraged /\ animal'.isEnraged) =>
        (BattleFrame /\ animal'.recentDamage > animal.maxHealth * 10)
  /\ (animal.isEnraged /\ ~animal'.isEnraged) =>
        \/ BattleFrame /\ 2 * animal'.recentDamage < animal.maxHealth * 10
        \/ phase = "result" /\ phase' = "setup"

\* the totals of commander damage the bounded battles reach
DamageTotals == {5 * n : n \in 0..MaxFrames}

Selects ==
  phase = "battle" /\ frames' = frames + 1 /\ behaviorTimer <= time' - time

SpecialsOf(a) == {a.behaviors[k] : k \in DOMAIN a.behaviors} \ {"charge"}

\* C29: at every behaviour selection 'search' is selected exactly when the
\* animal has no target at that moment (animal.target is written only after
\* the selection, by findNewTarget); with a target the selected behaviour is
\* 'charge' or one of the specials of the animal's type.
C29_SearchIffNoTarget ==
  [][Selects =>
       /\ (currentBehavior' = "search") <=> (animal.target = NoTarget)
       /\ animal.target # NoTarget =>
            currentBehavior' \in {"charge"} \cup SpecialsOf(animal)]_vars


\* a frame of the battle
Frame == phase = "battle" /\ frames' = frames + 1

\* the special behaviour the frame selected, if any
SelectedSpecial(b) == Selects /\ currentBehavior' = b /\ b \notin {"charge", "search"}

\* C30: a special behaviour is never selected while its cooldown is running
\* (specialCooldowns[b] > 0 when selectNewBehavior is called); selecting it
\* sets its cooldown, which the same frame's executeBehavior may already
\* lower by delta; in a frame that does not select it a cooldown never goes
\* up. (A reset builds a new animal with no cooldowns.)
C30_SpecialCooldowns ==
  [][Frame =>
       \A b \in SpecialNames :
          /\ SelectedSpecial(b) =>
                /\ animal.specialCooldowns[b] <= 0
                /\ \E cd \in cooldownChoices, d \in SlowDeltas :
                      animal'.specialCooldowns[b] \in {cd, cd - d}
          /\ ~SelectedSpecial(b) =>
                animal'.specialCooldowns[b] <= animal.specialCooldowns[b]]_vars

\* a special is the current behaviour, its cooldown running, while the
\* cooldown of a special selected before it is running too
C30_Witness ==
  /\ phase = "battle"
  /\ \E b, c \in SpecialsOf(animal) :
        /\ b # c
        /\ currentBehavior = b
        /\ animal.specialCooldowns[b] > animal.specialCooldowns[c]
        /\ animal.specialCooldowns[c] > 0


\* C31: each time 'ambush' is selected, the first tick that executes it is a
\* prepare step: the animal stays where it is and makes no attack; the lunge
\* and its attack come in a later tick. This holds for the first ambush of a
\* battle and for every later one.
C31_AmbushTwoPhase ==
  [][(Selects /\ currentBehavior' = "ambush") =>
        /\ animal'.position = animal.position
        /\ animal'.lastAttackTime = animal.lastAttackTime
        /\ calls' = <<>>]_vars


\* this state with the living fighter i as animal.target and 'throw' as the
\* current behaviour
ThrowAt(i) ==
  [World EXCEPT !.animal.target = FighterRef(i),
                !.animal.currentBehavior = "throw",
                !.currentBehavior = "throw"]

\* the outcomes of executeThrowBehavior on fighter i in which the attack was
\* accepted and left the fighter alive, fit to fight and with a knockback
Knocked(i, delta) ==
  {x \in executeThrowBehavior(ThrowAt(i), delta) :
      /\ Len(x.calls) > 0 /\ x.calls[Len(x.calls)].accepted
      /\ x.fighters[i].state # "dead" /\ ~Injured(x.fighters[i])
      /\ ~x.fighters[i].forceNan /\ ~x.fighters[i].nan
      /\ x.fighters[i].forceAccumulator # fighters[i].forceAccumulator}

C33_StunTimed ==
  [][Frame =>
       \A i \in DOMAIN fighters :
          (fighters[i].stunned /\ fighters[i].state # "dead") =>
             /\ fighters'[i].position = fighters[i].position
             /\ fighters'[i].lastAttackTime = fighters[i].lastAttackTime
             /\ \/ ~fighters'[i].stunned
                \/ fighters'[i].stunTime < fighters[i].stunTime
                \/ currentBehavior' \in {"pound", "pounce"}]_vars


\* the dead fighters of the roster
Dead == {i \in DOMAIN fighters : fighters[i].state = "dead"}

\* C34: the animal's target is re-validated before use in every tick: a tick
\* of the animal engine that starts with a dead fighter as animal.target
\* (while the commander or a living fighter exists) ends with another target
\* and leaves that fighter as it was; and no performAttack call takes health
\* from a unit that was dead when the call was made.
C34_TargetRevalidated ==
  /\ phase = "battle" =>
        \A i \in Dead, delta \in Deltas :
           \A x \in AnimalAIupdate([World EXCEPT !.animal.target = FighterRef(i)], delta) :
              /\ x.animal.target # FighterRef(i)
              /\ x.fighters[i] = fighters[i]
  /\ \A k \in DOMAIN calls :
        \A t \in DOMAIN calls[k].loss :
           (t \notin calls[k].live) => calls[k].loss[t] = 0

\* a battle goes on with a dead fighter on the roster, killed by an accepted
\* attack of the last frame that reached a second, living unit too; with the
\* dead fighter as its target the next tick of the animal engine turns to a
\* living unit
C34_Witness ==
  /\ phase = "battle"
  /\ \E i \in Dead :
        /\ \E k \in DOMAIN calls :
              /\ calls[k].accepted
              /\ calls[k].loss[FighterRef(i)] > 0
              /\ \E t \in calls[k].live \ {FighterRef(i)} : calls[k].loss[t] > 0
        /\ \E delta \in Deltas :
              \E x \in AnimalAIupdate([World EXCEPT !.animal.target = FighterRef(i)], delta) :
                 \/ x.animal.target = CommanderRef
                 \/ x.animal.target \in {FighterRef(j) : j \in Live(World)}


\* the bound keepInArena clamps to: arenaSize / 2 - 2, in centimetres
ArenaBound == (arenaSize * 100) \div 2 - 200

\* C35: after every commander update of a battle the commander's coordinate
\* lies within [-(arenaSize/2 - 2), arenaSize/2 - 2], whatever keys are held
\* and however long the frames are (the model follows the z axis; the code
\* clamps x by the same two lines).
C35_CommanderInArena ==
  /\ commander.position >= -ArenaBound
  /\ commander.position <= ArenaBound

\* the commander stands on the bound after a frame that would have carried
\* it beyond
C35_Witness ==
  /\ phase = "battle"
  /\ frames > 0
  /\ commander.position = -ArenaBound


\* C36: once the phase is 'result' the simulation is frozen until
\* setupBattle: a step that starts in the result phase either resets the
\* battle (phase 'setup') or changes no unit's health, state or position
\* (nor any other field of the roster, the commander and the animal), nor
\* the time, the score or the commander's damage count; the battle is not
\* entered again from the result phase, so no second endBattle follows.
C36_ResultFrozen ==
  [][phase = "result" =>
       \/ phase' = "setup"
       \/ /\ phase' = "result"
          /\ UNCHANGED <<fighters, commander, animal, time, score,
                         commanderDamageDealt, behaviorTimer, currentBehavior>>]_vars

\* a finished battle with its score set, a fighter lost and the last frame's
\* update run in the result phase
C36_Witness ==
  /\ phase = "result"
  /\ score > 0
  /\ \E i \in DOMAIN fighters : fighters[i].state = "dead"
  /\ ret = "done"
  /\ calls = <<>>


\* C37: in every battle the first behaviour the animal selects is 'search':
\* a battle starts with no behaviour, no target and the behaviour timer at
\* 0, so the first frame selects, and selects 'search'; a frame that leaves
\* the animal searching makes no attack, and the animal leaves 'search' only
\* in a frame in which the search's timer has run out. So no attack comes
\* before the first search's duration has elapsed.
C37_FirstBehaviourSearch ==
  /\ [](phase = "setup" =>
          currentBehavior = "null" /\ behaviorTimer = 0 /\ animal.target = NoTarget)
  /\ [][Frame =>
          /\ currentBehavior = "null" =>
                /\ currentBehavior' = "search"
                /\ behaviorTimer' \in durationChoices("search")
          /\ currentBehavior' = "search" =>
                /\ calls' = <<>>
                /\ animal'.lastAttackTime = animal.lastAttackTime
                /\ commander'.health = commander.health
          /\ (currentBehavior = "search" /\ currentBehavior' # "search") =>
                behaviorTimer <= time' - time]_vars

\* in a battle started after a reset the first search is over and the animal
\* has made its first attack
C37_Witness ==
  /\ phase = "battle"
  /\ time < LateTime
  /\ currentBehavior \notin {"null", "search"}
  /\ animal.lastAttackTime = time
  /\ time >= 200


\* C38: the same special behaviour is never selected in two consecutive
\* selections: when a frame selects while a special is the current behaviour
\* (the one the selection before it chose), that special's cooldown is still
\* running and the frame selects another behaviour.
C38_NoSpecialTwice ==
  [][(Selects /\ currentBehavior \in SpecialNames) =>
        /\ animal.specialCooldowns[currentBehavior] > 0
        /\ currentBehavior' # currentBehavior]_vars


\* C39: once the animal's health has reached 0 or less during a frame (by a
\* hit of the commander or of a fighter, which act before the animal engine)
\* the animal deals no further damage: in a frame that leaves the animal at
\* 0 or less no fighter and not the commander loses health or dies, and
\* after such a frame none does either.
C39_FallenAnimalHarmless ==
  [][(phase = "battle" /\ (animal.health <= 0 \/ animal'.health <= 0)) =>
        \/ phase' = "setup"
        \/ /\ commander'.health >= commander.health
            /\ \A i \in DOMAIN fighters :
                  /\ fighters'[i].health >= fighters[i].health
                  /\ fighters'[i].state = "dead" => fighters[i].state = "dead"]_vars

====
